---- MODULE Spec2Model ----
(***************************************************************************)
(* Model of the email verification pipeline of nexemail:                   *)
(*   core/src/lib.rs         check_email, calculate_reachable_with_reason, *)
(*                           format_smtp_error_reason                      *)
(*   core/src/smtp/error.rs  SmtpError and the SOCKS5 descriptions         *)
(* One behaviour is a sequence of check_email invocations of one process;  *)
(* every action is the code between two suspension points (.await).        *)
(***************************************************************************)
EXTENDS Integers, Sequences, FiniteSets, TLC

(***************************************************************************)
(* Bounds of the model.                                                    *)
(***************************************************************************)
MaxMx == 2          \* longest MX record list returned by a lookup
MaxPref == 2        \* MX preferences range over 1..MaxPref
MaxSecs == 2        \* timeout durations range over 1..MaxSecs seconds
MaxProxies == 3     \* longest proxy id list of a rotator
MaxTickets == 5     \* calls of get_next_proxy_id made on one rotator
UsizeBits == 3      \* width of usize, scaled down from 64
NumThreads == 2     \* threads sharing the rotator
NumTasks == 2       \* tasks calling get_public_ip
MaxTicks == 2       \* times the clock is advanced
MaxIpCalls == 2     \* calls of get_public_ip started
NumCallers == 3     \* threads calling check_email concurrently
MaxInvocations == 5 \* invocations of check_email started by the callers

(***************************************************************************)
(* String helpers.                                                         *)
(***************************************************************************)
StartsWith(s, p) == Len(s) >= Len(p) /\ SubSeq(s, 1, Len(p)) = p

Contains(s, p) ==
    \E i \in 1..(Len(s) - Len(p) + 1) : SubSeq(s, i, i + Len(p) - 1) = p

\* <[&str]>::join(sep)
RECURSIVE Join(_, _)
Join(parts, sep) ==
    IF parts = <<>> THEN ""
    ELSE IF Len(parts) = 1 THEN parts[1]
    ELSE parts[1] \o sep \o Join(Tail(parts), sep)

\* Vec::push under a condition
PushIf(v, cond, s) == IF cond THEN Append(v, s) ELSE v

(***************************************************************************)
(* Values.                                                                 *)
(***************************************************************************)
Reachable == {"Safe", "Risky", "Invalid", "Unknown"}

MiscDetails == [is_disposable : BOOLEAN, is_role_account : BOOLEAN]

DefaultMiscDetails == [is_disposable |-> FALSE, is_role_account |-> FALSE]

SmtpDetails ==
    [can_connect_smtp : BOOLEAN, has_full_inbox : BOOLEAN,
     is_deliverable : BOOLEAN, is_disabled : BOOLEAN, is_catch_all : BOOLEAN]

DefaultSmtpDetails ==
    [can_connect_smtp |-> FALSE, has_full_inbox |-> FALSE,
     is_deliverable |-> FALSE, is_disabled |-> FALSE, is_catch_all |-> FALSE]

(***************************************************************************)
(* smtp/error.rs: SmtpError and the SOCKS5 error descriptions.             *)
(***************************************************************************)
\* Display texts carried by the wrapped errors (opaque to this crate).
Details == {"d1", "d2"}

\* enum fast_socks5::ReplyError
ReplyErrors ==
    {"Succeeded", "GeneralFailure", "ConnectionNotAllowed",
     "NetworkUnreachable", "HostUnreachable", "ConnectionRefused",
     "TtlExpired", "CommandNotSupported", "AddressTypeNotSupported",
     "ConnectionTimeout"}

\* std::io::ErrorKind values told apart by format_socks5_error_detailed;
\* "Other" stands for every kind of the wildcard arm.
IoErrorKinds ==
    {"ConnectionRefused", "ConnectionReset", "TimedOut", "ConnectionAborted",
     "NotConnected", "AddrNotAvailable", "AddrInUse", "PermissionDenied",
     "UnexpectedEof", "Other"}

\* impl Display for std::io::ErrorKind
IoErrorKindDisplay(kind) ==
    CASE kind = "ConnectionRefused" -> "connection refused"
      [] kind = "ConnectionReset" -> "connection reset"
      [] kind = "TimedOut" -> "timed out"
      [] kind = "ConnectionAborted" -> "connection aborted"
      [] kind = "NotConnected" -> "not connected"
      [] kind = "AddrNotAvailable" -> "address not available"
      [] kind = "AddrInUse" -> "address in use"
      [] kind = "PermissionDenied" -> "permission denied"
      [] kind = "UnexpectedEof" -> "unexpected end of file"
      [] OTHER -> "other error"

\* enum fast_socks5::SocksError: kind is the variant, arg its payload
\* (an io::ErrorKind, a ReplyError, or the Display text of the payload).
SocksErrors ==
    [kind : {"Io"}, arg : IoErrorKinds]
    \cup [kind : {"ReplyError"}, arg : ReplyErrors]
    \cup [kind : {"AuthenticationFailed", "AuthenticationRejected",
                  "AuthMethodUnacceptable", "UnsupportedSocksVersion",
                  "InvalidHeader", "ExceededMaxDomainLen",
                  "ArgumentInputError", "Redaction", "Other"},
          arg : {"d1"}]

NoSocks == [kind |-> "None", arg |-> ""]

\* enum SmtpError
SmtpErrorVariants ==
    {"YahooError", "GmailError", "HeadlessError", "Microsoft365Error",
     "AsyncSmtpError", "IOError", "Timeout", "Socks5", "AnyhowError"}

\* The values of SmtpError: detail is the Display text of the wrapped error,
\* duration the seconds of a Timeout, socks the wrapped SocksError.
SmtpErrors ==
    [variant : SmtpErrorVariants \ {"Timeout", "Socks5"},
     detail : Details, duration : {0}, socks : {NoSocks}]
    \cup [variant : {"Timeout"}, detail : {""},
          duration : 1..MaxSecs, socks : {NoSocks}]
    \cup [variant : {"Socks5"}, detail : {"d1"},
          duration : {0}, socks : SocksErrors]

\* impl Debug for Duration, whole seconds
DurationDebug(secs) == ToString(secs) \o "s"

\* Option<String>
None == [some |-> FALSE, value |-> ""]

Some(v) == [some |-> TRUE, value |-> v]

\* fn format_socks5_reply_error(reply_error) -> String
format_socks5_reply_error(reply_error) ==
    CASE
      reply_error = "Succeeded" ->
           "SOCKS5 connection succeeded (this should not appear as an er"
           \o "ror)."
      [] reply_error = "GeneralFailure" ->
           "SOCKS5 General Failure (reply code 0x01): The proxy server e"
           \o "ncountered an internal error and could not complete the requ"
           \o "est. Possible causes: (1) The proxy cannot reach the target "
           \o "SMTP server - check if the target is accessible from the pro"
           \o "xy's network. (2) The proxy has internal configuration issue"
           \o "s or is overloaded. (3) Firewall or security policy on the p"
           \o "roxy is blocking this connection. (4) The proxy's outbound n"
           \o "etwork is restricted. Try using a different proxy or verify "
           \o "the target server is reachable from the proxy's location."
      [] reply_error = "ConnectionNotAllowed" ->
           "SOCKS5 Connection Not Allowed (reply code 0x02): The proxy's"
           \o " ruleset explicitly denies this connection. The proxy admini"
           \o "strator has configured policies that block connections to th"
           \o "is target. This may be due to: (1) IP-based access control l"
           \o "ists, (2) Domain blocking rules, (3) Port restrictions (SMTP"
           \o " port 25 is often blocked), (4) Rate limiting or abuse preve"
           \o "ntion. Contact the proxy provider or use a different proxy."
      [] reply_error = "NetworkUnreachable" ->
           "SOCKS5 Network Unreachable (reply code 0x03): The proxy cann"
           \o "ot route traffic to the target network. The target SMTP serv"
           \o "er's network is not accessible from the proxy. Possible caus"
           \o "es: (1) No route exists to the target network, (2) Network p"
           \o "artition or outage, (3) The proxy's network configuration do"
           \o "esn't include this route. Try a proxy in a different geograp"
           \o "hic location."
      [] reply_error = "HostUnreachable" ->
           "SOCKS5 Host Unreachable (reply code 0x04): The proxy could n"
           \o "ot reach the target SMTP server host. The specific host is n"
           \o "ot responding or is unreachable. Possible causes: (1) The SM"
           \o "TP server is down or offline, (2) DNS resolution failed on t"
           \o "he proxy side, (3) The host is blocking connections from the"
           \o " proxy's IP, (4) Firewall blocking at the destination. Verif"
           \o "y the target email domain's MX servers are operational."
      [] reply_error = "ConnectionRefused" ->
           "SOCKS5 Connection Refused (reply code 0x05): The target SMTP"
           \o " server actively refused the connection. The SMTP server is "
           \o "reachable but declined to accept the connection. Possible ca"
           \o "uses: (1) The SMTP server is not accepting connections on th"
           \o "is port, (2) The proxy's IP address is blacklisted by the SM"
           \o "TP server, (3) Rate limiting or connection limits on the tar"
           \o "get server, (4) The SMTP service is temporarily unavailable."
           \o " Try a different proxy with a clean IP reputation."
      [] reply_error = "TtlExpired" ->
           "SOCKS5 TTL Expired (reply code 0x06): The connection attempt"
           \o " timed out due to TTL expiration. The network path to the ta"
           \o "rget is too long or congested. This typically indicates seve"
           \o "re network latency or routing problems between the proxy and"
           \o " target."
      [] reply_error = "CommandNotSupported" ->
           "SOCKS5 Command Not Supported (reply code 0x07): The proxy do"
           \o "es not support the CONNECT command. This is unusual for a SO"
           \o "CKS5 proxy as CONNECT is a basic command. The proxy may have"
           \o " limited functionality or be misconfigured."
      [] reply_error = "AddressTypeNotSupported" ->
           "SOCKS5 Address Type Not Supported (reply code 0x08): The pro"
           \o "xy does not support the address format used. The target addr"
           \o "ess type (IPv4/IPv6/domain) is not supported by this proxy. "
           \o "Try using a different address format or a proxy with broader"
           \o " address support."
      [] reply_error = "ConnectionTimeout" ->
           "SOCKS5 Connection Timeout: The connection to the proxy or ta"
           \o "rget server timed out. The proxy server or target SMTP serve"
           \o "r did not respond in time. Possible causes: (1) Network late"
           \o "ncy is too high, (2) The proxy or target is overloaded, (3) "
           \o "Connection was blocked by a firewall without sending a rejec"
           \o "tion. Try increasing timeout values or using a proxy with lo"
           \o "wer latency."

\* the details text chosen by the inner match on io_err.kind()
socks5_io_details(kind) ==
    CASE kind = "ConnectionRefused" ->
           "Connection refused - the SOCKS5 proxy server is not acceptin"
           \o "g connections. Verify the proxy is running and the port is c"
           \o "orrect."
      [] kind = "ConnectionReset" ->
           "Connection reset by proxy - the SOCKS5 server terminated the"
           \o " connection unexpectedly. The proxy may be overloaded or blo"
           \o "cking this connection."
      [] kind = "TimedOut" ->
           "Connection timed out - unable to reach the SOCKS5 proxy serv"
           \o "er within the timeout period. Check network connectivity and"
           \o " firewall rules."
      [] kind = "ConnectionAborted" ->
           "Connection aborted - the connection to the SOCKS5 proxy was "
           \o "terminated. This may indicate network instability or proxy i"
           \o "ssues."
      [] kind = "NotConnected" ->
           "Not connected - failed to establish connection to the SOCKS5"
           \o " proxy. Verify proxy host and port are correct."
      [] kind = "AddrNotAvailable" ->
           "Address not available - the SOCKS5 proxy address could not b"
           \o "e resolved or is invalid."
      [] kind = "AddrInUse" ->
           "Address in use - local address conflict when connecting to S"
           \o "OCKS5 proxy."
      [] kind = "PermissionDenied" ->
           "Permission denied - insufficient permissions to connect to t"
           \o "he SOCKS5 proxy. This may be a firewall or system policy iss"
           \o "ue."
      [] kind = "UnexpectedEof" ->
           "Unexpected end of stream - the SOCKS5 proxy closed the conne"
           \o "ction prematurely. The proxy may have crashed or rejected th"
           \o "e request."
      [] OTHER ->
           "I/O error occurred while communicating with the SOCKS5 proxy."

\* pub fn format_socks5_error_detailed(error) -> String
format_socks5_error_detailed(error) ==
    CASE error.kind = "Io" ->
           "SOCKS5 I/O error (" \o IoErrorKindDisplay(error.arg) \o "): "
           \o socks5_io_details(error.arg) \o " Raw error: "
           \o IoErrorKindDisplay(error.arg)
      [] error.kind = "ReplyError" -> format_socks5_reply_error(error.arg)
      [] error.kind = "AuthenticationFailed" ->
           "SOCKS5 authentication failed: " \o error.arg
           \o ". Verify your proxy username and password are correct."
      [] error.kind = "AuthenticationRejected" ->
           "SOCKS5 authentication rejected by proxy: " \o error.arg
           \o ". The proxy server does not accept the provided credentia"
           \o "ls or authentication method."
      [] error.kind = "AuthMethodUnacceptable" ->
           "SOCKS5 authentication method not accepted. Requested methods"
           \o ": " \o error.arg
           \o ". The proxy requires a different authentication method th"
           \o "an what was offered."
      [] error.kind = "UnsupportedSocksVersion" ->
           "Unsupported SOCKS version: " \o error.arg
           \o ". Expected SOCKS5 (version 5). The server may not support"
           \o " SOCKS5 or is running a different protocol."
      [] error.kind = "InvalidHeader" ->
           "Invalid SOCKS5 protocol header. Expected: " \o error.arg
           \o ", Found: " \o error.arg
           \o ". The proxy may not be a valid SOCKS5 server or there's a"
           \o " protocol mismatch."
      [] error.kind = "ExceededMaxDomainLen" ->
           "Domain name too long for SOCKS5 protocol: " \o error.arg
           \o " bytes (max 255). The target domain name exceeds SOCKS5 p"
           \o "rotocol limits."
      [] error.kind = "ArgumentInputError" ->
           "Invalid SOCKS5 connection argument: " \o error.arg
           \o ". Check the proxy configuration parameters."
      [] error.kind = "Redaction" ->
           "SOCKS5 error (redacted for security): " \o error.arg
      [] error.kind = "Other" ->
           "SOCKS5 unexpected error: " \o error.arg
           \o ". This is an unclassified error from the proxy connection."

\* get_detailed_socks5_description that describes reply errors only
get_detailed_socks5_description_replies(error) ==
    IF error.variant = "Socks5" /\ error.socks.kind = "ReplyError"
    THEN Some(format_socks5_error_detailed(error.socks))
    ELSE None

\* get_detailed_socks5_description that finds no detailed description
get_detailed_socks5_description_none(error) ==
    None

\* SmtpError::get_detailed_socks5_description(&self) -> Option<String>
get_detailed_socks5_description(error) ==
    IF error.variant = "Socks5"
    THEN Some(format_socks5_error_detailed(error.socks))
    ELSE None

\* impl Display for SmtpError (thiserror #[error(...)] attributes)
SmtpErrorDisplay(error) ==
    CASE error.variant = "YahooError" -> "Yahoo error: " \o error.detail
      [] error.variant = "GmailError" -> "Gmail error: " \o error.detail
      [] error.variant = "HeadlessError" ->
           "Headless verification error: " \o error.detail
      [] error.variant = "Microsoft365Error" ->
           "Microsoft 365 API error: " \o error.detail
      [] error.variant = "AsyncSmtpError" -> "SMTP error: " \o error.detail
      [] error.variant = "IOError" -> "I/O error: " \o error.detail
      [] error.variant = "Timeout" ->
           "Timeout error: " \o DurationDebug(error.duration)
      [] error.variant = "Socks5" -> "SOCKS5 error: " \o error.detail
      [] error.variant = "AnyhowError" -> "Anyhow error: " \o error.detail

(***************************************************************************)
(* lib.rs: verdict fusion.                                                 *)
(***************************************************************************)
\* Result<SmtpDetails, SmtpError>: value is read when ok, error otherwise
NoSmtpError ==
    [variant |-> "None", detail |-> "", duration |-> 0, socks |-> NoSocks]

SmtpOk(d) == [ok |-> TRUE, value |-> d, error |-> NoSmtpError]

SmtpErr(e) == [ok |-> FALSE, value |-> DefaultSmtpDetails, error |-> e]

SmtpResults ==
    {SmtpOk(d) : d \in SmtpDetails} \cup {SmtpErr(e) : e \in SmtpErrors}

\* format_smtp_error_reason with the "Unknown: " prefix missing from the
\* detailed SOCKS5 arm
format_smtp_error_reason_noprefix(error) ==
    CASE error.variant = "YahooError" ->
           "Unknown: Yahoo verification failed - " \o error.detail
      [] error.variant = "GmailError" ->
           "Unknown: Gmail verification failed - " \o error.detail
      [] error.variant = "HeadlessError" ->
           "Unknown: Headless browser verification failed - " \o error.detail
      [] error.variant = "Microsoft365Error" ->
           "Unknown: Microsoft 365 verification failed - " \o error.detail
      [] error.variant = "AsyncSmtpError" ->
           "Unknown: SMTP error - " \o error.detail
      [] error.variant = "IOError" ->
           "Unknown: I/O error during SMTP connection - " \o error.detail
      [] error.variant = "Timeout" ->
           "Unknown: SMTP connection timed out after "
           \o DurationDebug(error.duration)
      [] error.variant = "Socks5" ->
           get_detailed_socks5_description(error).value
      [] error.variant = "AnyhowError" ->
           "Unknown: Unexpected error - " \o error.detail

\* format_smtp_error_reason with the texts of the Yahoo and Gmail arms exchanged
format_smtp_error_reason_exchanged(error) ==
    CASE error.variant = "YahooError" ->
           "Unknown: Gmail verification failed - " \o error.detail
      [] error.variant = "GmailError" ->
           "Unknown: Yahoo verification failed - " \o error.detail
      [] error.variant = "HeadlessError" ->
           "Unknown: Headless browser verification failed - " \o error.detail
      [] error.variant = "Microsoft365Error" ->
           "Unknown: Microsoft 365 verification failed - " \o error.detail
      [] error.variant = "AsyncSmtpError" ->
           "Unknown: SMTP error - " \o error.detail
      [] error.variant = "IOError" ->
           "Unknown: I/O error during SMTP connection - " \o error.detail
      [] error.variant = "Timeout" ->
           "Unknown: SMTP connection timed out after "
           \o DurationDebug(error.duration)
      [] error.variant = "Socks5" ->
           LET detailed == get_detailed_socks5_description(error)
           IN  IF detailed.some
               THEN "Unknown: " \o detailed.value
               ELSE "Unknown: SOCKS5 proxy connection failed - "
                    \o SmtpErrorDisplay(error)
      [] error.variant = "AnyhowError" ->
           "Unknown: Unexpected error - " \o error.detail

\* fn format_smtp_error_reason(error: &SmtpError) -> String
format_smtp_error_reason(error) ==
    CASE error.variant = "YahooError" ->
           "Unknown: Yahoo verification failed - " \o error.detail
      [] error.variant = "GmailError" ->
           "Unknown: Gmail verification failed - " \o error.detail
      [] error.variant = "HeadlessError" ->
           "Unknown: Headless browser verification failed - " \o error.detail
      [] error.variant = "Microsoft365Error" ->
           "Unknown: Microsoft 365 verification failed - " \o error.detail
      [] error.variant = "AsyncSmtpError" ->
           "Unknown: SMTP error - " \o error.detail
      [] error.variant = "IOError" ->
           "Unknown: I/O error during SMTP connection - " \o error.detail
      [] error.variant = "Timeout" ->
           "Unknown: SMTP connection timed out after "
           \o DurationDebug(error.duration)
      [] error.variant = "Socks5" ->
           LET detailed == get_detailed_socks5_description(error)
           IN  IF detailed.some
               THEN "Unknown: " \o detailed.value
               ELSE "Unknown: SOCKS5 proxy connection failed - "
                    \o SmtpErrorDisplay(error)
      [] error.variant = "AnyhowError" ->
           "Unknown: Unexpected error - " \o error.detail

\* risky_reasons with the role-account test placed before the disposable test
risky_reasons_swapped(misc, smtp_details) ==
    LET r1 == PushIf(<<>>, misc.is_role_account,
                     "role-based account (e.g., admin@, support@)")
        r2 == PushIf(r1, misc.is_disposable, "disposable email address")
        r3 == PushIf(r2, smtp_details.is_catch_all,
                     "catch-all address (accepts all emails)")
        r4 == PushIf(r3, smtp_details.has_full_inbox, "inbox is full")
    IN  r4

\* the risky_reasons vector of calculate_reachable_with_reason
risky_reasons(misc, smtp_details) ==
    LET r1 == PushIf(<<>>, misc.is_disposable, "disposable email address")
        r2 == PushIf(r1, misc.is_role_account,
                     "role-based account (e.g., admin@, support@)")
        r3 == PushIf(r2, smtp_details.is_catch_all,
                     "catch-all address (accepts all emails)")
        r4 == PushIf(r3, smtp_details.has_full_inbox, "inbox is full")
    IN  r4

\* invalid_reasons with the is_disabled test placed first
invalid_reasons_swapped(smtp_details) ==
    LET r1 == PushIf(<<>>, smtp_details.is_disabled,
                     "email account is disabled")
        r2 == PushIf(r1, ~smtp_details.can_connect_smtp,
                     "cannot connect to SMTP server")
        r3 == PushIf(r2, ~smtp_details.is_deliverable,
                     "email is not deliverable")
    IN  r3

\* the invalid_reasons vector of calculate_reachable_with_reason
invalid_reasons(smtp_details) ==
    LET r1 == PushIf(<<>>, ~smtp_details.can_connect_smtp,
                     "cannot connect to SMTP server")
        r2 == PushIf(r1, smtp_details.is_disabled,
                     "email account is disabled")
        r3 == PushIf(r2, ~smtp_details.is_deliverable,
                     "email is not deliverable")
    IN  r3

\* calculate_reachable_with_reason taking an Err probe result for a failed
\* delivery
calculate_reachable_err_invalid(misc, smtp) ==
    IF smtp.ok
    THEN IF risky_reasons(misc, smtp.value) # <<>>
         THEN <<"Risky", "Risky: " \o Join(risky_reasons(misc, smtp.value), ", ")>>
         ELSE IF invalid_reasons(smtp.value) # <<>>
         THEN <<"Invalid", "Invalid: " \o Join(invalid_reasons(smtp.value), ", ")>>
         ELSE <<"Safe", "Email verification passed all checks">>
    ELSE <<"Invalid", format_smtp_error_reason(smtp.error)>>

\* calculate_reachable_with_reason with the invalid reasons collected before
\* the risky ones
calculate_reachable_invalid_first(misc, smtp) ==
    IF smtp.ok
    THEN IF invalid_reasons(smtp.value) # <<>>
         THEN <<"Invalid", "Invalid: " \o Join(invalid_reasons(smtp.value), ", ")>>
         ELSE IF risky_reasons(misc, smtp.value) # <<>>
         THEN <<"Risky", "Risky: " \o Join(risky_reasons(misc, smtp.value), ", ")>>
         ELSE <<"Safe", "Email verification passed all checks">>
    ELSE <<"Unknown", format_smtp_error_reason(smtp.error)>>

\* calculate_reachable_with_reason collecting the invalid reasons only when a
\* connection was made
calculate_reachable_unconnected_safe(misc, smtp) ==
    IF smtp.ok
    THEN IF risky_reasons(misc, smtp.value) # <<>>
         THEN <<"Risky", "Risky: " \o Join(risky_reasons(misc, smtp.value), ", ")>>
         ELSE IF smtp.value.can_connect_smtp /\ invalid_reasons(smtp.value) # <<>>
         THEN <<"Invalid", "Invalid: " \o Join(invalid_reasons(smtp.value), ", ")>>
         ELSE <<"Safe", "Email verification passed all checks">>
    ELSE <<"Unknown", format_smtp_error_reason(smtp.error)>>

\* fn calculate_reachable_with_reason(misc, smtp) -> (Reachable, String)
calculate_reachable_with_reason(misc, smtp) ==
    IF smtp.ok
    THEN IF risky_reasons(misc, smtp.value) # <<>>
         THEN <<"Risky", "Risky: " \o Join(risky_reasons(misc, smtp.value), ", ")>>
         ELSE IF invalid_reasons(smtp.value) # <<>>
         THEN <<"Invalid", "Invalid: " \o Join(invalid_reasons(smtp.value), ", ")>>
         ELSE <<"Safe", "Email verification passed all checks">>
    ELSE <<"Unknown", format_smtp_error_reason(smtp.error)>>

(***************************************************************************)
(* The collaborators of check_email: syntax, mx, misc and smtp modules.    *)
(***************************************************************************)
\* CheckEmailInput.to_email
Emails == {"not-an-email", "user@good.test", "admin@gmial.com"}

\* the strategy the provider dispatch selects for the address
Strategies == {"Smtp", "Api", "Headless", "Skipped"}

\* CheckEmailInput.backend_name: Option<String>
BackendNames == {None, Some("backend1")}

CheckEmailInput ==
    [to_email : Emails, strategy : Strategies, backend_name : BackendNames]

\* position of the '@' of an address, 0 when there is none
AtPos(e) ==
    IF \E i \in 1..Len(e) : SubSeq(e, i, i) = "@"
    THEN CHOOSE i \in 1..Len(e) :
            /\ SubSeq(e, i, i) = "@"
            /\ \A j \in 1..(i - 1) : SubSeq(e, j, j) # "@"
    ELSE 0

\* syntax::check_syntax(email) -> SyntaxDetails
check_syntax(e) ==
    LET at == AtPos(e)
        valid == at > 1 /\ at < Len(e)
    IN  [is_valid_syntax |-> valid,
         address |-> IF valid THEN Some(e) ELSE None,
         domain |-> IF valid THEN SubSeq(e, at + 1, Len(e)) ELSE "",
         username |-> IF valid THEN SubSeq(e, 1, at - 1) ELSE "",
         suggestion |-> None]

\* syntax::get_similar_mail_provider(&mut syntax)
get_similar_mail_provider(syntax) ==
    IF syntax.domain = "gmial.com"
    THEN [syntax EXCEPT !.suggestion = Some("gmail.com")]
    ELSE syntax

\* one MX record: (preference, exchange)
MxRecords == [preference : 1..MaxPref, exchange : {"mx1.test", "mx2.test"}]

\* the record lists a successful lookup can hold
RECURSIVE SeqsUpTo(_, _)
SeqsUpTo(S, n) ==
    IF n = 0 THEN {<<>>}
    ELSE SeqsUpTo(S, n - 1)
         \cup {Append(q, x) : q \in {r \in SeqsUpTo(S, n - 1) : Len(r) = n - 1},
                              x \in S}

\* MxDetails.lookup: Result<MxLookup, ResolveError>
LookupOk(recs) == [ok |-> TRUE, records |-> recs, error |-> ""]

LookupErr(e) == [ok |-> FALSE, records |-> <<>>, error |-> e]

\* Result<MxDetails, MxError>: value is read when ok, error otherwise
MxOk(details) == [ok |-> TRUE, value |-> details, error |-> ""]

MxErr(e) ==
    [ok |-> FALSE, value |-> [lookup |-> LookupErr("")], error |-> e]

\* mx::check_mx(&syntax) -> Result<MxDetails, MxError>: an MxError, or
\* MxDetails whose lookup is the resolver's error or its record list
MxResults ==
    {MxErr(d) : d \in Details}
    \cup {MxOk([lookup |-> LookupErr("no record found")])}
    \cup {MxOk([lookup |-> LookupOk(recs)]) :
              recs \in SeqsUpTo(MxRecords, MaxMx)}

\* misc::check_misc(&syntax, ..) -> MiscDetails
MiscResults == MiscDetails

\* smtp::check_smtp(..) -> Result<SmtpDetails, SmtpError>, per strategy
check_smtp_results(strategy) ==
    IF strategy = "Skipped" THEN {SmtpOk(DefaultSmtpDetails)} ELSE SmtpResults

\* Option<&MX>
NoHost == [some |-> FALSE, value |-> [preference |-> 0, exchange |-> ""]]

\* min_by_key_preference returning the last of the minimal elements
min_by_key_preference_last(recs) ==
    IF recs = <<>> THEN NoHost
    ELSE LET i == CHOOSE k \in 1..Len(recs) :
                    /\ \A j \in 1..Len(recs) :
                          recs[k].preference <= recs[j].preference
                    /\ \A j \in (k + 1)..Len(recs) :
                          recs[j].preference > recs[k].preference
         IN  Some(recs[i])

\* min_by_key_preference comparing the exchange names of equal preferences
min_by_key_preference_then_exchange(recs) ==
    IF recs = <<>> THEN NoHost
    ELSE LET i == CHOOSE k \in 1..Len(recs) :
                    /\ \A j \in 1..Len(recs) :
                          recs[k].preference <= recs[j].preference
                    /\ \A j \in 1..Len(recs) :
                          (recs[j].preference = recs[k].preference
                              /\ recs[j].exchange # recs[k].exchange)
                          => recs[k].exchange = "mx1.test"
                    /\ \A j \in 1..(k - 1) : recs[j] # recs[k]
         IN  Some(recs[i])

\* Iterator::min_by_key(|a| a.preference()): the first of the minimal elements
min_by_key_preference(recs) ==
    IF recs = <<>> THEN NoHost
    ELSE LET i == CHOOSE k \in 1..Len(recs) :
                    /\ \A j \in 1..Len(recs) :
                          recs[k].preference <= recs[j].preference
                    /\ \A j \in 1..(k - 1) :
                          recs[j].preference > recs[k].preference
         IN  Some(recs[i])

(***************************************************************************)
(* lib.rs: check_email.                                                    *)
(***************************************************************************)
VARIABLES
    pc,            \* where the current invocation of check_email stands
    input,         \* its CheckEmailInput
    my_syntax,     \* local my_syntax
    my_mx,         \* local my_mx, as returned by check_mx
    my_misc,       \* local my_misc
    my_smtp,       \* local my_smtp
    host,          \* the MX record handed to check_smtp
    calls,         \* the functions the invocation has called, in order
    output,        \* the CheckEmailOutput it returned
    crypto_installs, \* how often the closure of INIT.call_once has run
    once_state,      \* the state of the Once INIT
    \* smtp/proxy_rotator.rs: one ProxyRotator shared by the threads
    proxy_ids,     \* ProxyRotator.proxy_ids
    strategy,      \* ProxyRotator.strategy
    counter,       \* ProxyRotator.counter
    rot_pc,        \* per thread: where its call of get_next_proxy_id stands
    rot_ticket,    \* per thread: the value its fetch_add returned
    rot_result,    \* per thread: the Option<&String> its call returned
    rot_returned,  \* the (ticket, index, id) of the round-robin calls returned
    rot_issued,    \* number of calls of get_next_proxy_id started
    \* util/public_ip.rs: PUBLIC_IP_CACHE and the tasks calling get_public_ip
    cache_ip,            \* CachedPublicIp.ip
    cache_last_fetched,  \* CachedPublicIp.last_fetched
    now,                 \* the monotonic clock read by Instant, in seconds
    ticks,               \* number of times the clock was advanced
    ip_pc,               \* per task: where its call of get_public_ip stands
    ip_service,          \* per task: position in PUBLIC_IP_SERVICES
    ip_local,            \* per task: the value of fetch_public_ip
    ip_result,           \* per task: the string its call returned
    ip_fetched,          \* per task: whether its call ran fetch_public_ip
    ip_calls,            \* number of calls of get_public_ip started
    ip_fetches,          \* number of calls of fetch_public_ip started
    fetch_log,           \* the services one observed task contacted in its
                         \* current fetch, each with the answer it gave
    \* lib.rs: the threads entering check_email concurrently
    inv_pc,              \* per caller: where its invocation stands
    inv_started          \* number of invocations started

check_locals == <<pc, input, my_syntax, my_mx, my_misc, my_smtp, host, calls,
                  output>>

check_vars == <<check_locals, crypto_installs, once_state>>

inv_vars == <<inv_pc, inv_started>>

rot_vars == <<proxy_ids, strategy, counter, rot_pc, rot_ticket, rot_result,
              rot_returned, rot_issued>>

ip_vars == <<cache_ip, cache_last_fetched, now, ticks, ip_pc, ip_service,
             ip_local, ip_result, ip_fetched, ip_calls, ip_fetches, fetch_log>>

vars == <<check_vars, rot_vars, ip_vars, inv_vars>>

NoInput == [to_email |-> "", strategy |-> "Smtp", backend_name |-> None]

NoSyntax == check_syntax("")

NoMx == MxOk([lookup |-> LookupErr("default")])

\* Result<MiscDetails, MiscError>
MiscOk(m) == [ok |-> TRUE, value |-> m]

NoOutput == [returned |-> FALSE]

\* impl Default for CheckEmailOutput
DefaultOutput ==
    [returned |-> TRUE,
     input |-> "",
     is_reachable |-> "Unknown",
     reason |-> "",
     misc |-> MiscOk(DefaultMiscDetails),
     mx |-> NoMx,
     smtp |-> SmtpOk(DefaultSmtpDetails),
     syntax |-> NoSyntax,
     backend_name |-> None]

\* invalid_syntax_output with the verdict name missing from the reason
invalid_syntax_output_bare(in, syntax) ==
    [DefaultOutput EXCEPT
        !.input = in.to_email,
        !.is_reachable = "Invalid",
        !.reason = "email syntax is invalid",
        !.syntax = syntax]

\* lib.rs 220-226: the output returned on invalid syntax
invalid_syntax_output(in, syntax) ==
    [DefaultOutput EXCEPT
        !.input = in.to_email,
        !.is_reachable = "Invalid",
        !.reason = "Invalid: email syntax is invalid",
        !.syntax = syntax]

\* mx_error_output with the arms of the reason match exchanged
mx_error_output_swapped(in, syntax, mx) ==
    [DefaultOutput EXCEPT
        !.input = in.to_email,
        !.is_reachable = "Unknown",
        !.reason = IF mx.ok
                   THEN "Unknown: MX lookup failed - " \o mx.error
                   ELSE "Unknown: unexpected MX lookup state",
        !.mx = mx,
        !.syntax = syntax]

\* mx_error_output that also reports the MX failure as the outcome of a probe
mx_error_output_probed(in, syntax, mx) ==
    [DefaultOutput EXCEPT
        !.input = in.to_email,
        !.is_reachable = "Unknown",
        !.reason = IF ~mx.ok
                   THEN "Unknown: MX lookup failed - " \o mx.error
                   ELSE "Unknown: unexpected MX lookup state",
        !.mx = mx,
        !.smtp = SmtpErr([variant |-> "AnyhowError", detail |-> mx.error,
                          duration |-> 0, socks |-> NoSocks]),
        !.syntax = syntax]

\* lib.rs 243-256: the output returned when check_mx returned Err(mx_error)
mx_error_output(in, syntax, mx) ==
    [DefaultOutput EXCEPT
        !.input = in.to_email,
        !.is_reachable = "Unknown",
        !.reason = IF ~mx.ok
                   THEN "Unknown: MX lookup failed - " \o mx.error
                   ELSE "Unknown: unexpected MX lookup state",
        !.mx = mx,
        !.syntax = syntax]

\* lib.rs 264-271: the output returned when my_mx.lookup is an error
no_mx_output(in, syntax, mx) ==
    [DefaultOutput EXCEPT
        !.input = in.to_email,
        !.is_reachable = "Invalid",
        !.reason = "Invalid: no MX records found for domain",
        !.mx = mx,
        !.syntax = syntax]

\* no check_email invocation has been made
CheckInit ==
    /\ pc = "idle"
    /\ input = NoInput
    /\ my_syntax = NoSyntax
    /\ my_mx = NoMx
    /\ my_misc = DefaultMiscDetails
    /\ my_smtp = SmtpOk(DefaultSmtpDetails)
    /\ host = NoHost
    /\ calls = <<>>
    /\ output = NoOutput
    /\ crypto_installs = 0
    /\ once_state = "INCOMPLETE"

Callers == 1..NumCallers

\* no thread has entered check_email
CallersIdle ==
    /\ inv_pc = [t \in Callers |-> "idle"]
    /\ inv_started = 0

Threads == 1..NumThreads

\* ProxyRotator::new(proxy_ids, strategy), no call made yet
RotatorNew(ids, strat) ==
    /\ proxy_ids = ids
    /\ strategy = strat
    /\ counter = 0
    /\ rot_pc = [t \in Threads |-> "idle"]
    /\ rot_ticket = [t \in Threads |-> 0]
    /\ rot_result = [t \in Threads |-> None]
    /\ rot_returned = {}
    /\ rot_issued = 0

Tasks == 1..NumTasks

\* Option<Instant>
NoInstant == [some |-> FALSE, value |-> 0]

SomeInstant(t) == [some |-> TRUE, value |-> t]

\* public_ip.rs 34-39: the cache as the Lazy initialiser builds it, no call
\* of get_public_ip made yet
IpCacheNew ==
    /\ cache_ip = None
    /\ cache_last_fetched = NoInstant
    /\ now = 0
    /\ ticks = 0
    /\ ip_pc = [t \in Tasks |-> "idle"]
    /\ ip_service = [t \in Tasks |-> 0]
    /\ ip_local = [t \in Tasks |-> ""]
    /\ ip_result = [t \in Tasks |-> ""]
    /\ ip_fetched = [t \in Tasks |-> FALSE]
    /\ ip_calls = 0
    /\ ip_fetches = 0
    /\ fetch_log = <<>>

Init ==
    /\ CheckInit
    /\ RotatorNew(<<>>, "RoundRobin")
    /\ IpCacheNew
    /\ CallersIdle

\* Start without the return on invalid syntax
Start_no_return(in) ==
    /\ pc = "idle"
    /\ input' = in
    /\ crypto_installs' = IF crypto_installs = 0 THEN 1 ELSE crypto_installs
    /\ once_state' = "COMPLETE"
    /\ my_syntax' = check_syntax(in.to_email)
    /\ my_mx' = NoMx
    /\ my_misc' = DefaultMiscDetails
    /\ my_smtp' = SmtpOk(DefaultSmtpDetails)
    /\ host' = NoHost
    /\ output' = NoOutput
    /\ calls' = <<"initialize_crypto_provider", "check_syntax", "check_mx">>
    /\ pc' = "await_mx"

\* lib.rs 208-236: initialize_crypto_provider, check_syntax, the return on
\* invalid syntax, the call of check_mx
Start(in) ==
    /\ pc = "idle"
    /\ input' = in
    /\ crypto_installs' = IF crypto_installs = 0 THEN 1 ELSE crypto_installs
    /\ once_state' = "COMPLETE"
    /\ my_syntax' = check_syntax(in.to_email)
    /\ my_mx' = NoMx
    /\ my_misc' = DefaultMiscDetails
    /\ my_smtp' = SmtpOk(DefaultSmtpDetails)
    /\ host' = NoHost
    /\ IF ~my_syntax'.is_valid_syntax
       THEN /\ output' = invalid_syntax_output(in, my_syntax')
            /\ calls' = <<"initialize_crypto_provider", "check_syntax">>
            /\ pc' = "returned"
       ELSE /\ output' = NoOutput
            /\ calls' = <<"initialize_crypto_provider", "check_syntax",
                          "check_mx">>
            /\ pc' = "await_mx"

\* MxReturn that starts the SMTP probe together with the misc checks
MxReturn_probing_early(r) ==
    /\ pc = "await_mx"
    /\ my_mx' = r
    /\ UNCHANGED <<input, my_misc, my_smtp, host, crypto_installs,
                   once_state>>
    /\ IF ~r.ok
       THEN /\ my_syntax' = get_similar_mail_provider(my_syntax)
            /\ output' = mx_error_output(input, my_syntax', r)
            /\ calls' = Append(calls, "get_similar_mail_provider")
            /\ pc' = "returned"
       ELSE IF ~r.value.lookup.ok
       THEN /\ my_syntax' = get_similar_mail_provider(my_syntax)
            /\ output' = no_mx_output(input, my_syntax', r)
            /\ calls' = Append(calls, "get_similar_mail_provider")
            /\ pc' = "returned"
       ELSE /\ calls' = calls \o <<"check_misc", "check_smtp">>
            /\ pc' = "await_misc"
            /\ UNCHANGED <<my_syntax, output>>

\* lib.rs 236-294: check_mx has returned r; the two early returns, otherwise
\* the call of check_misc
MxReturn(r) ==
    /\ pc = "await_mx"
    /\ my_mx' = r
    /\ UNCHANGED <<input, my_misc, my_smtp, host, crypto_installs,
                   once_state>>
    /\ IF ~r.ok
       THEN /\ my_syntax' = get_similar_mail_provider(my_syntax)
            /\ output' = mx_error_output(input, my_syntax', r)
            /\ calls' = Append(calls, "get_similar_mail_provider")
            /\ pc' = "returned"
       ELSE IF ~r.value.lookup.ok
       THEN /\ my_syntax' = get_similar_mail_provider(my_syntax)
            /\ output' = no_mx_output(input, my_syntax', r)
            /\ calls' = Append(calls, "get_similar_mail_provider")
            /\ pc' = "returned"
       ELSE /\ calls' = Append(calls, "check_misc")
            /\ pc' = "await_misc"
            /\ UNCHANGED <<my_syntax, output>>

\* lib.rs 289-322: check_misc has returned m; the MX host of lowest
\* preference is selected (the expect panics on an empty list) and
\* check_smtp is called
MiscReturn(m) ==
    /\ pc = "await_misc"
    /\ my_misc' = m
    /\ UNCHANGED <<input, my_syntax, my_mx, my_smtp, output, crypto_installs,
                   once_state>>
    /\ LET selected == min_by_key_preference(my_mx.value.lookup.records)
       IN  IF ~selected.some \/ ~my_syntax.address.some
           THEN /\ pc' = "panicked"
                /\ UNCHANGED <<host, calls>>
           ELSE /\ host' = selected
                /\ calls' = Append(calls, "check_smtp")
                /\ pc' = "await_smtp"

\* SmtpReturn that enriches the suggestion whatever the probe returned
SmtpReturn_enriching(r) ==
    /\ pc = "await_smtp"
    /\ my_smtp' = r
    /\ my_syntax' = get_similar_mail_provider(my_syntax)
    /\ calls' = calls \o <<"get_similar_mail_provider", "end_time",
                           "calculate_reachable_with_reason">>
    /\ LET fused == calculate_reachable_with_reason(my_misc, r)
       IN  output' = [returned |-> TRUE,
                      input |-> input.to_email,
                      is_reachable |-> fused[1],
                      reason |-> fused[2],
                      misc |-> MiscOk(my_misc),
                      mx |-> my_mx,
                      smtp |-> r,
                      syntax |-> my_syntax',
                      backend_name |-> input.backend_name]
    /\ pc' = "returned"
    /\ UNCHANGED <<input, my_mx, my_misc, host, crypto_installs,
                   once_state>>

\* lib.rs 313-355: check_smtp has returned r; suggestion on error, end_time
\* is taken, verdict fusion, the output
SmtpReturn(r) ==
    /\ pc = "await_smtp"
    /\ my_smtp' = r
    /\ my_syntax' = IF ~r.ok THEN get_similar_mail_provider(my_syntax)
                    ELSE my_syntax
    /\ calls' = IF ~r.ok
                THEN calls \o <<"get_similar_mail_provider", "end_time",
                                "calculate_reachable_with_reason">>
                ELSE calls \o <<"end_time", "calculate_reachable_with_reason">>
    /\ LET fused == calculate_reachable_with_reason(my_misc, r)
       IN  output' = [returned |-> TRUE,
                      input |-> input.to_email,
                      is_reachable |-> fused[1],
                      reason |-> fused[2],
                      misc |-> MiscOk(my_misc),
                      mx |-> my_mx,
                      smtp |-> r,
                      syntax |-> my_syntax',
                      backend_name |-> input.backend_name]
    /\ pc' = "returned"
    /\ UNCHANGED <<input, my_mx, my_misc, host, crypto_installs,
                   once_state>>

\* lib.rs 354: the caller has taken the output; the locals of the
\* invocation are dropped and the process is ready for the next invocation
Finish ==
    /\ pc = "returned"
    /\ pc' = "idle"
    /\ input' = NoInput
    /\ my_syntax' = NoSyntax
    /\ my_mx' = NoMx
    /\ my_misc' = DefaultMiscDetails
    /\ my_smtp' = SmtpOk(DefaultSmtpDetails)
    /\ host' = NoHost
    /\ calls' = <<>>
    /\ output' = NoOutput
    /\ UNCHANGED <<crypto_installs, once_state>>

Next ==
    \/ \E in \in CheckEmailInput : Start(in) /\ UNCHANGED <<rot_vars, ip_vars, inv_vars>>
    \/ \E r \in MxResults : MxReturn(r) /\ UNCHANGED <<rot_vars, ip_vars, inv_vars>>
    \/ \E m \in MiscResults : MiscReturn(m) /\ UNCHANGED <<rot_vars, ip_vars, inv_vars>>
    \/ \E r \in check_smtp_results(input.strategy) :
          SmtpReturn(r) /\ UNCHANGED <<rot_vars, ip_vars, inv_vars>>
    \/ Finish /\ UNCHANGED <<rot_vars, ip_vars, inv_vars>>

Spec == Init /\ [][Next]_vars

(***************************************************************************)
(* check_email with the probe reduced to its two outcomes, Ok and Err: the *)
(* steps of a run and the choice of the MX host do not depend on which     *)
(* details or which error the probe returns.                               *)
(***************************************************************************)
\* one Ok and one Err result of check_smtp; Skipped gives the Ok result only
ProbeOutcomes(strat) ==
    IF strat = "Skipped"
    THEN {SmtpOk(DefaultSmtpDetails)}
    ELSE {SmtpOk(DefaultSmtpDetails),
          SmtpErr([variant |-> "AsyncSmtpError", detail |-> "d1",
                   duration |-> 0, socks |-> NoSocks])}

StepsNext ==
    \/ \E in \in CheckEmailInput :
          Start(in) /\ UNCHANGED <<rot_vars, ip_vars, inv_vars>>
    \/ \E r \in MxResults : MxReturn(r) /\ UNCHANGED <<rot_vars, ip_vars, inv_vars>>
    \/ \E m \in MiscResults :
          MiscReturn(m) /\ UNCHANGED <<rot_vars, ip_vars, inv_vars>>
    \/ \E r \in ProbeOutcomes(input.strategy) :
          SmtpReturn(r) /\ UNCHANGED <<rot_vars, ip_vars, inv_vars>>
    \/ Finish /\ UNCHANGED <<rot_vars, ip_vars, inv_vars>>

SpecSteps == Init /\ [][StepsNext]_vars

(***************************************************************************)
(* check_email with the MX lookup reduced to one outcome per branch: the   *)
(* reason given for a probe result does not depend on the MX records.      *)
(***************************************************************************)
\* an MxError, a lookup error, and a lookup holding one record
MxOutcomes ==
    {MxErr("d1"),
     MxOk([lookup |-> LookupErr("no record found")]),
     MxOk([lookup |-> LookupOk(<<[preference |-> 1,
                                  exchange |-> "mx1.test"]>>)])}

ReasonsNext ==
    \/ \E in \in CheckEmailInput :
          Start(in) /\ UNCHANGED <<rot_vars, ip_vars, inv_vars>>
    \/ \E r \in MxOutcomes : MxReturn(r) /\ UNCHANGED <<rot_vars, ip_vars, inv_vars>>
    \/ \E m \in MiscResults :
          MiscReturn(m) /\ UNCHANGED <<rot_vars, ip_vars, inv_vars>>
    \/ \E r \in check_smtp_results(input.strategy) :
          SmtpReturn(r) /\ UNCHANGED <<rot_vars, ip_vars, inv_vars>>
    \/ Finish /\ UNCHANGED <<rot_vars, ip_vars, inv_vars>>

SpecReasons == Init /\ [][ReasonsNext]_vars

(***************************************************************************)
(* smtp/proxy_rotator.rs: ProxyRotator::get_next_proxy_id, called by       *)
(* NumThreads threads on one shared rotator.                               *)
(***************************************************************************)
ProxyIds == {"proxy1", "proxy2", "proxy3"}

\* enum ProxyRotationStrategy
RotationStrategies == {"RoundRobin", "Random"}

\* usize::MAX + 1
UsizeModulus == 2 ^ UsizeBits

\* ProxyRotator::len
len == Len(proxy_ids)

\* ProxyRotator::is_empty
is_empty == proxy_ids = <<>>

\* rotation_index taken from the counter value after the increment
rotation_index_after(ticket) == (ticket + 1) % Len(proxy_ids)

\* the index computed from a ticket on line 60
rotation_index(ticket) == ticket % Len(proxy_ids)

\* RotCallEmpty with the emptiness test made after the fetch_add
RotCallEmpty_counting(t) ==
    /\ rot_pc[t] = "idle"
    /\ rot_issued < MaxTickets
    /\ proxy_ids = <<>>
    /\ counter' = (counter + 1) % UsizeModulus
    /\ rot_result' = [rot_result EXCEPT ![t] = None]
    /\ rot_pc' = [rot_pc EXCEPT ![t] = "returned"]
    /\ rot_issued' = rot_issued + 1
    /\ UNCHANGED <<proxy_ids, strategy, rot_ticket, rot_returned>>

\* proxy_rotator.rs 54-56: the list is empty, the call returns None
RotCallEmpty(t) ==
    /\ rot_pc[t] = "idle"
    /\ rot_issued < MaxTickets
    /\ proxy_ids = <<>>
    /\ rot_result' = [rot_result EXCEPT ![t] = None]
    /\ rot_pc' = [rot_pc EXCEPT ![t] = "returned"]
    /\ rot_issued' = rot_issued + 1
    /\ UNCHANGED <<proxy_ids, strategy, counter, rot_ticket, rot_returned>>

\* RotFetchAdd on a counter that grows without bound
RotFetchAdd_unbounded(t) ==
    /\ rot_pc[t] = "idle"
    /\ rot_issued < MaxTickets
    /\ proxy_ids # <<>>
    /\ strategy = "RoundRobin"
    /\ rot_ticket' = [rot_ticket EXCEPT ![t] = counter]
    /\ counter' = counter + 1
    /\ rot_pc' = [rot_pc EXCEPT ![t] = "fetched"]
    /\ rot_issued' = rot_issued + 1
    /\ UNCHANGED <<proxy_ids, strategy, rot_result, rot_returned>>

\* proxy_rotator.rs 60: self.counter.fetch_add(1, Ordering::SeqCst), one
\* atomic read-modify-write that wraps at usize::MAX
RotFetchAdd(t) ==
    /\ rot_pc[t] = "idle"
    /\ rot_issued < MaxTickets
    /\ proxy_ids # <<>>
    /\ strategy = "RoundRobin"
    /\ rot_ticket' = [rot_ticket EXCEPT ![t] = counter]
    /\ counter' = (counter + 1) % UsizeModulus
    /\ rot_pc' = [rot_pc EXCEPT ![t] = "fetched"]
    /\ rot_issued' = rot_issued + 1
    /\ UNCHANGED <<proxy_ids, strategy, rot_result, rot_returned>>

\* proxy_rotator.rs 60-61: index = ticket % len, self.proxy_ids.get(index)
RotGet(t) ==
    /\ rot_pc[t] = "fetched"
    /\ LET index == rotation_index(rot_ticket[t])
       IN  /\ rot_result' = [rot_result EXCEPT
                                ![t] = IF index < Len(proxy_ids)
                                       THEN Some(proxy_ids[index + 1])
                                       ELSE None]
           /\ rot_returned' = rot_returned \cup
                 {[ticket |-> rot_ticket[t], index |-> index,
                   id |-> rot_result'[t]]}
    /\ rot_pc' = [rot_pc EXCEPT ![t] = "returned"]
    /\ UNCHANGED <<proxy_ids, strategy, counter, rot_ticket, rot_issued>>

\* RotRandom that returns the first id whatever the generator picks
RotRandom_first(t, i) ==
    /\ rot_pc[t] = "idle"
    /\ rot_issued < MaxTickets
    /\ proxy_ids # <<>>
    /\ strategy = "Random"
    /\ i \in 1..Len(proxy_ids)
    /\ rot_result' = [rot_result EXCEPT ![t] = Some(proxy_ids[1])]
    /\ rot_pc' = [rot_pc EXCEPT ![t] = "returned"]
    /\ rot_issued' = rot_issued + 1
    /\ UNCHANGED <<proxy_ids, strategy, counter, rot_ticket, rot_returned>>

\* proxy_rotator.rs 63-65: self.proxy_ids.choose(&mut rand::thread_rng()),
\* i is the position the generator picks
RotRandom(t, i) ==
    /\ rot_pc[t] = "idle"
    /\ rot_issued < MaxTickets
    /\ proxy_ids # <<>>
    /\ strategy = "Random"
    /\ i \in 1..Len(proxy_ids)
    /\ rot_result' = [rot_result EXCEPT ![t] = Some(proxy_ids[i])]
    /\ rot_pc' = [rot_pc EXCEPT ![t] = "returned"]
    /\ rot_issued' = rot_issued + 1
    /\ UNCHANGED <<proxy_ids, strategy, counter, rot_ticket, rot_returned>>

\* the caller has taken the returned id and may call again
RotDone(t) ==
    /\ rot_pc[t] = "returned"
    /\ rot_pc' = [rot_pc EXCEPT ![t] = "idle"]
    /\ rot_ticket' = [rot_ticket EXCEPT ![t] = 0]
    /\ rot_result' = [rot_result EXCEPT ![t] = None]
    /\ UNCHANGED <<proxy_ids, strategy, counter, rot_returned, rot_issued>>

RotInit ==
    /\ CheckInit
    /\ IpCacheNew
    /\ CallersIdle
    /\ \E ids \in SeqsUpTo(ProxyIds, MaxProxies), strat \in RotationStrategies :
          RotatorNew(ids, strat)

RotNext ==
    \/ \E t \in Threads : RotCallEmpty(t) /\ UNCHANGED <<check_vars, ip_vars, inv_vars>>
    \/ \E t \in Threads : RotFetchAdd(t) /\ UNCHANGED <<check_vars, ip_vars, inv_vars>>
    \/ \E t \in Threads : RotGet(t) /\ UNCHANGED <<check_vars, ip_vars, inv_vars>>
    \/ \E t \in Threads, i \in 1..MaxProxies :
          RotRandom(t, i) /\ UNCHANGED <<check_vars, ip_vars, inv_vars>>
    \/ \E t \in Threads : RotDone(t) /\ UNCHANGED <<check_vars, ip_vars, inv_vars>>

SpecRotator == RotInit /\ [][RotNext]_vars

(***************************************************************************)
(* smtp/proxy_rotator.rs: a RoundRobin rotator late in the life of the     *)
(* process, two calls before its counter reaches usize::MAX.               *)
(***************************************************************************)
\* the value of the counter after usize::MAX - 1 calls have returned
CounterNearMax == UsizeModulus - 2

\* the rotator after CounterNearMax calls of get_next_proxy_id, all of which
\* have returned; rot_returned and rot_issued cover the calls made from here
RotWrapInit ==
    /\ CheckInit
    /\ IpCacheNew
    /\ CallersIdle
    /\ proxy_ids \in SeqsUpTo(ProxyIds, MaxProxies) \ {<<>>}
    /\ strategy = "RoundRobin"
    /\ counter = CounterNearMax
    /\ rot_pc = [t \in Threads |-> "idle"]
    /\ rot_ticket = [t \in Threads |-> 0]
    /\ rot_result = [t \in Threads |-> None]
    /\ rot_returned = {}
    /\ rot_issued = 0

RotWrapNext ==
    \/ \E t \in Threads :
          RotFetchAdd(t) /\ UNCHANGED <<check_vars, ip_vars, inv_vars>>
    \/ \E t \in Threads :
          RotGet(t) /\ UNCHANGED <<check_vars, ip_vars, inv_vars>>
    \/ \E t \in Threads :
          RotDone(t) /\ UNCHANGED <<check_vars, ip_vars, inv_vars>>

SpecRotatorWrap == RotWrapInit /\ [][RotWrapNext]_vars


(***************************************************************************)
(* util/public_ip.rs: get_public_ip and fetch_public_ip, called by         *)
(* NumTasks tasks sharing PUBLIC_IP_CACHE.  No lock is held across the     *)
(* fetch, so the tasks interleave at every await.                          *)
(***************************************************************************)
\* const PUBLIC_IP_CACHE_DURATION, in seconds
PUBLIC_IP_CACHE_DURATION == 300

\* const PUBLIC_IP_SERVICES
PUBLIC_IP_SERVICES ==
    <<"https://api.ipify.org", "https://ifconfig.me/ip",
      "https://icanhazip.com", "https://ipecho.net/plain">>

\* the amounts by which the clock advances between two steps
TickSteps == {1, PUBLIC_IP_CACHE_DURATION - 1}

\* what a service can answer: the request fails (sent FALSE), or a response
\* arrives with a status, and a body when text() succeeds
Bodies == {"203.0.113.7\n", "198.51.100.2", "<html>"}

ServiceAnswers ==
    [sent : {FALSE}, success : {FALSE}, text : {None}]
    \cup [sent : {TRUE}, success : {FALSE}, text : {None}]
    \cup [sent : {TRUE}, success : {TRUE},
          text : {None} \cup {Some(b) : b \in Bodies}]

\* hostname::get(): Ok(name) or Err
HostnameAnswers == {Some("host1"), None}

Whitespace == {" ", "\n", "\t", "\r"}

\* str::trim
RECURSIVE trim(_)
trim(str) ==
    IF Len(str) = 0 THEN str
    ELSE IF SubSeq(str, 1, 1) \in Whitespace
    THEN trim(SubSeq(str, 2, Len(str)))
    ELSE IF SubSeq(str, Len(str), Len(str)) \in Whitespace
    THEN trim(SubSeq(str, 1, Len(str) - 1))
    ELSE str

\* fn is_valid_ip: the texts among Bodies that parse as an IpAddr
is_valid_ip(ip) == ip \in {"203.0.113.7", "198.51.100.2"}

\* fn get_local_hostname
get_local_hostname(answer) ==
    IF answer.some THEN "local:" \o answer.value ELSE "local:unknown"

\* cache_fresh that still serves an entry aged exactly the cache duration
cache_fresh_inclusive(ip, last_fetched, instant) ==
    /\ ip.some
    /\ last_fetched.some
    /\ instant - last_fetched.value <= PUBLIC_IP_CACHE_DURATION

\* public_ip.rs 44-45: both fields are Some and last_fetched.elapsed() is
\* below the cache duration
cache_fresh(ip, last_fetched, instant) ==
    /\ ip.some
    /\ last_fetched.some
    /\ instant - last_fetched.value < PUBLIC_IP_CACHE_DURATION

\* public_ip.rs 41-51: the call takes the read lock; a fresh entry is
\* returned, otherwise the lock is dropped and fetch_public_ip starts
IpStart(t) ==
    /\ ip_pc[t] = "idle"
    /\ ip_calls < MaxIpCalls
    /\ ip_calls' = ip_calls + 1
    /\ IF cache_fresh(cache_ip, cache_last_fetched, now)
       THEN /\ ip_result' = [ip_result EXCEPT ![t] = cache_ip.value]
            /\ ip_fetched' = [ip_fetched EXCEPT ![t] = FALSE]
            /\ ip_pc' = [ip_pc EXCEPT ![t] = "returned"]
            /\ UNCHANGED <<ip_service, ip_fetches>>
       ELSE /\ ip_fetched' = [ip_fetched EXCEPT ![t] = TRUE]
            /\ ip_service' = [ip_service EXCEPT ![t] = 1]
            /\ ip_fetches' = ip_fetches + 1
            /\ ip_pc' = [ip_pc EXCEPT ![t] = "fetching"]
            /\ UNCHANGED ip_result
    /\ UNCHANGED <<cache_ip, cache_last_fetched, now, ticks, ip_local>>

\* IpService that parses the body as the service sent it, untrimmed
IpService_untrimmed(t, a) ==
    /\ ip_pc[t] = "fetching"
    /\ ip_service[t] \in 1..Len(PUBLIC_IP_SERVICES)
    /\ IF a.sent /\ a.success /\ a.text.some /\ is_valid_ip(a.text.value)
       THEN /\ ip_local' = [ip_local EXCEPT ![t] = "local:" \o a.text.value]
            /\ ip_pc' = [ip_pc EXCEPT ![t] = "fetched"]
            /\ UNCHANGED ip_service
       ELSE /\ ip_service' = [ip_service EXCEPT ![t] = ip_service[t] + 1]
            /\ UNCHANGED <<ip_local, ip_pc>>
    /\ UNCHANGED <<cache_ip, cache_last_fetched, now, ticks, ip_result,
                   ip_fetched, ip_calls, ip_fetches>>

\* public_ip.rs 68-82: the service at the task's position has answered a;
\* a valid address ends the fetch, anything else moves to the next service
IpService(t, a) ==
    /\ ip_pc[t] = "fetching"
    /\ ip_service[t] \in 1..Len(PUBLIC_IP_SERVICES)
    /\ IF a.sent /\ a.success /\ a.text.some /\ is_valid_ip(trim(a.text.value))
       THEN /\ ip_local' = [ip_local EXCEPT
                               ![t] = "local:" \o trim(a.text.value)]
            /\ ip_pc' = [ip_pc EXCEPT ![t] = "fetched"]
            /\ UNCHANGED ip_service
       ELSE /\ ip_service' = [ip_service EXCEPT ![t] = ip_service[t] + 1]
            /\ UNCHANGED <<ip_local, ip_pc>>
    /\ UNCHANGED <<cache_ip, cache_last_fetched, now, ticks, ip_result,
                   ip_fetched, ip_calls, ip_fetches>>

\* public_ip.rs 84: every service was tried, get_local_hostname answers
IpHostname(t, h) ==
    /\ ip_pc[t] = "fetching"
    /\ ip_service[t] = Len(PUBLIC_IP_SERVICES) + 1
    /\ ip_local' = [ip_local EXCEPT ![t] = get_local_hostname(h)]
    /\ ip_pc' = [ip_pc EXCEPT ![t] = "fetched"]
    /\ UNCHANGED <<cache_ip, cache_last_fetched, now, ticks, ip_service,
                   ip_result, ip_fetched, ip_calls, ip_fetches>>

\* IpStore that keeps the fallback of a failed fetch out of the cache
IpStore_unless_fallback(t) ==
    /\ ip_pc[t] = "fetched"
    /\ IF ip_service[t] > Len(PUBLIC_IP_SERVICES)
       THEN UNCHANGED <<cache_ip, cache_last_fetched>>
       ELSE /\ cache_ip' = Some(ip_local[t])
            /\ cache_last_fetched' = SomeInstant(now)
    /\ ip_result' = [ip_result EXCEPT ![t] = ip_local[t]]
    /\ ip_pc' = [ip_pc EXCEPT ![t] = "returned"]
    /\ UNCHANGED <<now, ticks, ip_service, ip_local, ip_fetched, ip_calls,
                   ip_fetches>>

\* public_ip.rs 53-59: under the write lock both fields of the cache are
\* overwritten, and the fetched string is returned
IpStore(t) ==
    /\ ip_pc[t] = "fetched"
    /\ cache_ip' = Some(ip_local[t])
    /\ cache_last_fetched' = SomeInstant(now)
    /\ ip_result' = [ip_result EXCEPT ![t] = ip_local[t]]
    /\ ip_pc' = [ip_pc EXCEPT ![t] = "returned"]
    /\ UNCHANGED <<now, ticks, ip_service, ip_local, ip_fetched, ip_calls,
                   ip_fetches>>

\* the caller has taken the returned string and may call again
IpDone(t) ==
    /\ ip_pc[t] = "returned"
    /\ ip_pc' = [ip_pc EXCEPT ![t] = "idle"]
    /\ ip_service' = [ip_service EXCEPT ![t] = 0]
    /\ ip_local' = [ip_local EXCEPT ![t] = ""]
    /\ ip_result' = [ip_result EXCEPT ![t] = ""]
    /\ ip_fetched' = [ip_fetched EXCEPT ![t] = FALSE]
    /\ UNCHANGED <<cache_ip, cache_last_fetched, now, ticks, ip_calls,
                   ip_fetches>>

\* time passes: Instant::now() and elapsed() read a later instant
Tick(d) ==
    /\ ticks < MaxTicks
    /\ now' = now + d
    /\ ticks' = ticks + 1
    /\ UNCHANGED <<cache_ip, cache_last_fetched, ip_pc, ip_service, ip_local,
                   ip_result, ip_fetched, ip_calls, ip_fetches>>

IpInit ==
    /\ CheckInit
    /\ RotatorNew(<<>>, "RoundRobin")
    /\ IpCacheNew
    /\ CallersIdle

IpNext ==
    \/ \E t \in Tasks : IpStart(t) /\ UNCHANGED <<check_vars, rot_vars, inv_vars, fetch_log>>
    \/ \E t \in Tasks, a \in ServiceAnswers :
          IpService(t, a) /\ UNCHANGED <<check_vars, rot_vars, inv_vars, fetch_log>>
    \/ \E t \in Tasks, h \in HostnameAnswers :
          IpHostname(t, h) /\ UNCHANGED <<check_vars, rot_vars, inv_vars, fetch_log>>
    \/ \E t \in Tasks : IpStore(t) /\ UNCHANGED <<check_vars, rot_vars, inv_vars, fetch_log>>
    \/ \E t \in Tasks : IpDone(t) /\ UNCHANGED <<check_vars, rot_vars, inv_vars, fetch_log>>
    \/ \E d \in TickSteps : Tick(d) /\ UNCHANGED <<check_vars, rot_vars, inv_vars, fetch_log>>

SpecPublicIp == IpInit /\ [][IpNext]_vars

(***************************************************************************)
(* util/public_ip.rs: the calls of one task, each service it contacts      *)
(* logged with the answer the service gave.                                *)
(***************************************************************************)
\* the task whose fetches are logged
Observed == 1

outside_fetch == <<check_vars, rot_vars, inv_vars>>

FetchNext ==
    \/ IpStart(Observed) /\ fetch_log' = <<>> /\ UNCHANGED outside_fetch
    \/ \E a \in ServiceAnswers :
          /\ IpService(Observed, a)
          /\ fetch_log' = Append(fetch_log,
                [service |-> PUBLIC_IP_SERVICES[ip_service[Observed]],
                 answer |-> a])
          /\ UNCHANGED outside_fetch
    \/ \E h \in HostnameAnswers :
          IpHostname(Observed, h) /\ UNCHANGED <<outside_fetch, fetch_log>>
    \/ IpStore(Observed) /\ UNCHANGED <<outside_fetch, fetch_log>>
    \/ IpDone(Observed) /\ fetch_log' = <<>> /\ UNCHANGED outside_fetch
    \/ \E d \in TickSteps : Tick(d) /\ UNCHANGED <<outside_fetch, fetch_log>>

SpecFetch == IpInit /\ [][FetchNext]_vars


(***************************************************************************)
(* lib.rs 105-113, 208-218: NumCallers threads entering check_email at the *)
(* same time.  INIT.call_once runs its closure in the first caller, blocks *)
(* the callers that arrive while it runs, and lets later callers through.  *)
(***************************************************************************)
\* CallOnce without the Once: every caller runs the install
CallOnce_unguarded(t) ==
    /\ inv_pc[t] = "idle"
    /\ inv_started < MaxInvocations
    /\ inv_started' = inv_started + 1
    /\ inv_pc' = [inv_pc EXCEPT ![t] = "installing"]
    /\ UNCHANGED <<crypto_installs, once_state>>

\* lib.rs 107, 209: a caller enters initialize_crypto_provider and reaches
\* INIT.call_once
CallOnce(t) ==
    /\ inv_pc[t] = "idle"
    /\ inv_started < MaxInvocations
    /\ inv_started' = inv_started + 1
    /\ CASE once_state = "COMPLETE" ->
              /\ inv_pc' = [inv_pc EXCEPT ![t] = "check_syntax"]
              /\ UNCHANGED once_state
         [] once_state = "INCOMPLETE" ->
              /\ inv_pc' = [inv_pc EXCEPT ![t] = "installing"]
              /\ once_state' = "RUNNING"
         [] once_state = "RUNNING" ->
              /\ inv_pc' = [inv_pc EXCEPT ![t] = "waiting"]
              /\ UNCHANGED once_state
         [] once_state = "POISONED" ->
              /\ inv_pc' = [inv_pc EXCEPT ![t] = "panicked"]
              /\ UNCHANGED once_state
    /\ UNCHANGED crypto_installs

\* lib.rs 108-111: the closure runs install_default().unwrap(); the install
\* fails, and the unwrap panics, when a provider is installed already
InstallDefault(t) ==
    /\ inv_pc[t] = "installing"
    /\ IF crypto_installs = 0
       THEN /\ crypto_installs' = 1
            /\ once_state' = "COMPLETE"
            /\ inv_pc' = [inv_pc EXCEPT ![t] = "check_syntax"]
       ELSE /\ once_state' = "POISONED"
            /\ inv_pc' = [inv_pc EXCEPT ![t] = "panicked"]
            /\ UNCHANGED crypto_installs
    /\ UNCHANGED inv_started

\* lib.rs 107: a caller blocked in call_once resumes when the closure ended
OnceWake(t) ==
    /\ inv_pc[t] = "waiting"
    /\ once_state \in {"COMPLETE", "POISONED"}
    /\ inv_pc' = [inv_pc EXCEPT
                     ![t] = IF once_state = "COMPLETE"
                            THEN "check_syntax" ELSE "panicked"]
    /\ UNCHANGED <<crypto_installs, once_state, inv_started>>

\* lib.rs 218: the caller runs check_syntax and the rest of the pipeline
InvProceed(t) ==
    /\ inv_pc[t] = "check_syntax"
    /\ inv_pc' = [inv_pc EXCEPT ![t] = "checking"]
    /\ UNCHANGED <<crypto_installs, once_state, inv_started>>

\* lib.rs 354: the invocation returns, the thread may call again
InvReturn(t) ==
    /\ inv_pc[t] = "checking"
    /\ inv_pc' = [inv_pc EXCEPT ![t] = "idle"]
    /\ UNCHANGED <<crypto_installs, once_state, inv_started>>

CryptoInit ==
    /\ CheckInit
    /\ RotatorNew(<<>>, "RoundRobin")
    /\ IpCacheNew
    /\ CallersIdle

CryptoNext ==
    \/ \E t \in Callers :
          CallOnce(t) /\ UNCHANGED <<check_locals, rot_vars, ip_vars>>
    \/ \E t \in Callers :
          InstallDefault(t) /\ UNCHANGED <<check_locals, rot_vars, ip_vars>>
    \/ \E t \in Callers :
          OnceWake(t) /\ UNCHANGED <<check_locals, rot_vars, ip_vars>>
    \/ \E t \in Callers :
          InvProceed(t) /\ UNCHANGED <<check_locals, rot_vars, ip_vars>>
    \/ \E t \in Callers :
          InvReturn(t) /\ UNCHANGED <<check_locals, rot_vars, ip_vars>>

SpecCrypto == CryptoInit /\ [][CryptoNext]_vars


(***************************************************************************)
(* Properties of check_email and of the verdict fusion.                    *)
(***************************************************************************)
\* the current invocation has called f
Called(f) == \E i \in 1..Len(calls) : calls[i] = f

\* the current invocation returned the output of the verdict fusion
Fused ==
    /\ pc = "returned"
    /\ calls # <<>>
    /\ calls[Len(calls)] = "calculate_reachable_with_reason"

DownstreamSteps ==
    {"check_mx", "check_misc", "get_similar_mail_provider", "check_smtp",
     "calculate_reachable_with_reason"}

\* C1: whenever the syntax check reported is_valid_syntax = false, the
\* returned output is Invalid with reason exactly
\* "Invalid: email syntax is invalid".
C1_InvalidSyntaxVerdict ==
    (pc = "returned" /\ ~my_syntax.is_valid_syntax) =>
        /\ output.returned
        /\ output.is_reachable = "Invalid"
        /\ output.reason = "Invalid: email syntax is invalid"
        /\ ~output.syntax.is_valid_syntax

C1_Witness ==
    /\ pc = "returned"
    /\ input.to_email = "not-an-email"
    /\ ~my_syntax.is_valid_syntax
    /\ output.returned

\* C2: in an invocation whose syntax check reported invalid syntax no
\* downstream step is ever started: no MX lookup, no misc checks, no
\* suggestion enrichment, no SMTP probe; the invocation is never waiting on
\* one of them.
C2_NoDownstreamOnInvalidSyntax ==
    (pc # "idle" /\ ~my_syntax.is_valid_syntax) =>
        /\ pc = "returned"
        /\ \A f \in DownstreamSteps : ~Called(f)
        /\ calls = <<"initialize_crypto_provider", "check_syntax">>

C2_Witness ==
    /\ pc = "returned"
    /\ ~my_syntax.is_valid_syntax
    /\ Called("check_syntax")
    /\ output.is_reachable = "Invalid"

\* C3: with valid syntax, when check_mx returns an error the output is
\* Unknown, its reason is "Unknown: MX lookup failed - " followed by the
\* error, and neither the misc checks nor the SMTP probe were called.
C3_MxErrorUnknown ==
    (pc = "returned" /\ my_syntax.is_valid_syntax /\ ~my_mx.ok) =>
        /\ output.returned
        /\ output.is_reachable = "Unknown"
        /\ StartsWith(output.reason, "Unknown: MX lookup failed - ")
        /\ output.reason = "Unknown: MX lookup failed - " \o my_mx.error
        /\ ~Called("check_misc")
        /\ ~Called("check_smtp")

C3_Witness ==
    /\ pc = "returned"
    /\ my_syntax.is_valid_syntax
    /\ ~my_mx.ok
    /\ my_mx.error = "d2"
    /\ output.is_reachable = "Unknown"

\* the MX lookup of the current invocation succeeded with zero records:
\* check_mx returned MxDetails holding either the resolver's error or an
\* empty record list
ZeroMxRecords ==
    /\ my_mx.ok
    /\ \/ ~my_mx.value.lookup.ok
       \/ my_mx.value.lookup.records = <<>>

\* C4: with valid syntax, once the MX lookup has succeeded with zero records
\* the invocation returns Invalid with reason exactly
\* "Invalid: no MX records found for domain" and calls neither the misc
\* checks nor the SMTP probe.
C4_NoMxRecordsInvalid ==
    (pc \notin {"idle", "await_mx"} /\ my_syntax.is_valid_syntax
     /\ ZeroMxRecords) =>
        /\ pc = "returned"
        /\ output.returned
        /\ output.is_reachable = "Invalid"
        /\ output.reason = "Invalid: no MX records found for domain"
        /\ ~Called("check_misc")
        /\ ~Called("check_smtp")

\* C5: in the verdict fusion an Err probe result always gives Unknown and an
\* Ok probe result always gives Safe, Risky or Invalid, whatever misc and
\* the five SmtpDetails flags are.
C5_ErrUnknownOkNotUnknown ==
    Fused =>
        /\ ~my_smtp.ok => output.is_reachable = "Unknown"
        /\ my_smtp.ok => output.is_reachable \in {"Safe", "Risky", "Invalid"}

C5_Witness ==
    /\ Fused
    /\ ~my_smtp.ok
    /\ my_misc.is_disposable
    /\ output.is_reachable = "Unknown"

\* one of the four risky flags of the fused output is set
AnyRiskyFlag(misc, d) ==
    \/ misc.is_disposable
    \/ misc.is_role_account
    \/ d.is_catch_all
    \/ d.has_full_inbox

\* C6: risky is evaluated before invalid: with an Ok probe result and at
\* least one of is_disposable, is_role_account, is_catch_all, has_full_inbox
\* set the verdict is Risky whatever can_connect_smtp, is_disabled and
\* is_deliverable are; is_catch_all never gives Invalid.
C6_RiskyBeforeInvalid ==
    (Fused /\ my_smtp.ok) =>
        /\ AnyRiskyFlag(my_misc, my_smtp.value) =>
              output.is_reachable = "Risky"
        /\ my_smtp.value.is_catch_all => output.is_reachable # "Invalid"

C6_Witness ==
    /\ Fused
    /\ my_smtp.ok
    /\ my_smtp.value.is_catch_all
    /\ ~my_smtp.value.can_connect_smtp
    /\ my_smtp.value.is_disabled
    /\ ~my_smtp.value.is_deliverable
    /\ output.is_reachable = "Risky"

\* C7 as stated: the reason of every output begins with the name of its
\* verdict followed by a colon, for Invalid, Risky, Unknown and Safe alike.
C7_ReasonNamesVerdict ==
    output.returned => StartsWith(output.reason, output.is_reachable \o ":")

\* C7 amended: the reason of every Invalid, Risky or Unknown output begins
\* with the name of the verdict followed by a colon; the reason of a Safe
\* output is exactly "Email verification passed all checks", without a
\* "Safe:" prefix.
C7_ReasonNamesVerdictButSafe ==
    output.returned =>
        /\ output.is_reachable = "Invalid" =>
              StartsWith(output.reason, "Invalid:")
        /\ output.is_reachable = "Risky" =>
              StartsWith(output.reason, "Risky:")
        /\ output.is_reachable = "Unknown" =>
              StartsWith(output.reason, "Unknown:")
        /\ output.is_reachable = "Safe" =>
              /\ output.reason = "Email verification passed all checks"
              /\ ~StartsWith(output.reason, "Safe:")

C7_Witness ==
    /\ Fused
    /\ output.is_reachable = "Safe"
    /\ output.reason = "Email verification passed all checks"

\* the text after "Invalid: ": the applicable reasons in the fixed order,
\* each later one preceded by ", " when an earlier one applies
ExpectedInvalidText(d) ==
    (IF ~d.can_connect_smtp THEN "cannot connect to SMTP server" ELSE "")
    \o (IF d.is_disabled
        THEN (IF ~d.can_connect_smtp THEN ", " ELSE "")
             \o "email account is disabled"
        ELSE "")
    \o (IF ~d.is_deliverable
        THEN (IF ~d.can_connect_smtp \/ d.is_disabled THEN ", " ELSE "")
             \o "email is not deliverable"
        ELSE "")

\* C8: with an Ok probe result and none of the four risky flags set, the
\* verdict is Invalid exactly when !can_connect_smtp or is_disabled or
\* !is_deliverable, with reason "Invalid: " and the applicable reasons joined
\* by ", " in the order cannot connect, disabled, not deliverable; otherwise
\* the verdict is Safe with reason "Email verification passed all checks".
C8_InvalidOrSafe ==
    (Fused /\ my_smtp.ok /\ ~AnyRiskyFlag(my_misc, my_smtp.value)) =>
        LET d == my_smtp.value
            bad == ~d.can_connect_smtp \/ d.is_disabled \/ ~d.is_deliverable
        IN  /\ output.is_reachable = "Invalid" <=> bad
            /\ bad => output.reason = "Invalid: " \o ExpectedInvalidText(d)
            /\ ~bad =>
                  /\ output.is_reachable = "Safe"
                  /\ output.reason = "Email verification passed all checks"

C8_Witness ==
    /\ Fused
    /\ my_smtp.ok
    /\ ~AnyRiskyFlag(my_misc, my_smtp.value)
    /\ output.reason =
          "Invalid: cannot connect to SMTP server, email account is disabled, "
          \o "email is not deliverable"

\* the text after "Risky: ": the reasons whose flag is set in the fixed
\* order, each later one preceded by ", " when an earlier one is set
ExpectedRiskyText(misc, d) ==
    (IF misc.is_disposable THEN "disposable email address" ELSE "")
    \o (IF misc.is_role_account
        THEN (IF misc.is_disposable THEN ", " ELSE "")
             \o "role-based account (e.g., admin@, support@)"
        ELSE "")
    \o (IF d.is_catch_all
        THEN (IF misc.is_disposable \/ misc.is_role_account
              THEN ", " ELSE "")
             \o "catch-all address (accepts all emails)"
        ELSE "")
    \o (IF d.has_full_inbox
        THEN (IF misc.is_disposable \/ misc.is_role_account \/ d.is_catch_all
              THEN ", " ELSE "")
             \o "inbox is full"
        ELSE "")

InvalidReasonTexts ==
    {"cannot connect to SMTP server", "email account is disabled",
     "email is not deliverable"}

\* C9: the reason of a Risky output is "Risky: " followed by exactly the
\* reasons whose flag is set, each once, joined by ", " in the order
\* disposable, role-based, catch-all, inbox is full; it holds no invalid
\* reason text.
C9_RiskyReason ==
    (output.returned /\ output.is_reachable = "Risky") =>
        /\ output.smtp.ok
        /\ AnyRiskyFlag(output.misc.value, output.smtp.value)
        /\ output.reason =
              "Risky: " \o ExpectedRiskyText(output.misc.value, output.smtp.value)
        /\ \A t \in InvalidReasonTexts : ~Contains(output.reason, t)

C9_Witness ==
    /\ output.returned
    /\ output.is_reachable = "Risky"
    /\ ~output.smtp.value.is_deliverable
    /\ output.reason =
          "Risky: disposable email address, "
          \o "role-based account (e.g., admin@, support@), "
          \o "catch-all address (accepts all emails), inbox is full"

\* C10 as stated: when the selected strategy is Skipped the probe yields Ok
\* with all five flags false and the fusion gives Risky when misc reports a
\* disposable or role account and Safe otherwise, never Invalid or Unknown.
C10_SkippedSafeOrRisky ==
    (Fused /\ input.strategy = "Skipped") =>
        /\ my_smtp = SmtpOk(DefaultSmtpDetails)
        /\ output.is_reachable \in {"Safe", "Risky"}
        /\ output.is_reachable = "Risky" <=>
              (my_misc.is_disposable \/ my_misc.is_role_account)

\* C10 amended: when the selected strategy is Skipped the probe yields Ok
\* with all five flags false and the fusion gives Risky when misc reports a
\* disposable or role account and otherwise Invalid with reason "Invalid:
\* cannot connect to SMTP server, email is not deliverable"; never Safe or
\* Unknown.
C10_SkippedInvalidOrRisky ==
    (Fused /\ input.strategy = "Skipped") =>
        /\ my_smtp.ok
        /\ \A f \in DOMAIN my_smtp.value : ~my_smtp.value[f]
        /\ output.is_reachable \in {"Invalid", "Risky"}
        /\ output.is_reachable = "Risky" <=>
              (my_misc.is_disposable \/ my_misc.is_role_account)
        /\ output.is_reachable = "Invalid" =>
              output.reason =
                 "Invalid: cannot connect to SMTP server, "
                 \o "email is not deliverable"

C10_Witness ==
    /\ Fused
    /\ input.strategy = "Skipped"
    /\ ~my_misc.is_disposable
    /\ ~my_misc.is_role_account
    /\ output.is_reachable = "Invalid"

\* C11: check_email never fails: no invocation is aborted by an unwrap or an
\* expect, whatever its collaborators return, a lookup that succeeded with
\* an empty record list included.
C11_NeverPanics ==
    pc # "panicked"

\* C12: when check_mx returns an error, the smtp and misc fields of the
\* output are the default values (no probe result, no misc result): of the
\* fields of the default output only input, is_reachable, reason, mx and
\* syntax are set.
C12_MxErrorFrame ==
    (pc = "returned" /\ my_syntax.is_valid_syntax /\ ~my_mx.ok) =>
        /\ output.returned
        /\ output.smtp = DefaultOutput.smtp
        /\ output.misc = DefaultOutput.misc
        /\ output.mx = my_mx
        /\ output.syntax = my_syntax
        /\ output.input = input.to_email
        /\ output = [DefaultOutput EXCEPT
                        !.input = output.input,
                        !.is_reachable = output.is_reachable,
                        !.reason = output.reason,
                        !.mx = output.mx,
                        !.syntax = output.syntax]

C12_Witness ==
    /\ pc = "returned"
    /\ my_syntax.is_valid_syntax
    /\ ~my_mx.ok
    /\ output.returned
    /\ output.mx = my_mx
    /\ output.mx # DefaultOutput.mx
    /\ input.backend_name.some

(***************************************************************************)
(* Properties of ProxyRotator.                                             *)
(***************************************************************************)
\* element t (from 0) of seq repeated cyclically
RECURSIVE NthCyclic(_, _)
NthCyclic(seq, t) ==
    IF t < Len(seq) THEN seq[t + 1] ELSE NthCyclic(seq, t - Len(seq))

ReturnedTickets == {e.ticket : e \in rot_returned}

InFlightTickets == {rot_ticket[t] : t \in {u \in Threads : rot_pc[u] = "fetched"}}

\* C13: with RoundRobin over N >= 1 ids, under any interleaving of the
\* threads' calls, the calls hold distinct tickets 0, 1, 2, ... in fetch-add
\* order, the call with ticket t returns proxy_ids[t mod N], so the returns
\* in ticket order are the input repeated cyclically, and once the first
\* k*N calls have returned each position was returned exactly k times.
C13_RoundRobinTickets ==
    (strategy = "RoundRobin" /\ proxy_ids # <<>>) =>
        LET N == Len(proxy_ids)
        IN  /\ \A t1, t2 \in Threads :
                  (t1 # t2 /\ rot_pc[t1] = "fetched" /\ rot_pc[t2] = "fetched")
                      => rot_ticket[t1] # rot_ticket[t2]
            /\ InFlightTickets \cap ReturnedTickets = {}
            /\ InFlightTickets \cup ReturnedTickets = 0..(counter - 1)
            /\ Cardinality(rot_returned) = Cardinality(ReturnedTickets)
            /\ \A e \in rot_returned :
                  e.id = Some(NthCyclic(proxy_ids, e.ticket))
            /\ \A t \in Threads :
                  (rot_pc[t] = "returned") =>
                      rot_result[t] = Some(NthCyclic(proxy_ids, rot_ticket[t]))
            /\ \A k \in 1..MaxTickets :
                  (0..(k * N - 1) \subseteq ReturnedTickets) =>
                      \A i \in 0..(N - 1) :
                          Cardinality({e \in rot_returned :
                              e.ticket < k * N /\ e.index = i}) = k

C13_Witness ==
    /\ strategy = "RoundRobin"
    /\ Len(proxy_ids) = 2
    /\ proxy_ids[1] # proxy_ids[2]
    /\ 0..3 \subseteq ReturnedTickets
    /\ \E t \in Threads : rot_pc[t] = "fetched" /\ rot_ticket[t] = 4

\* C14: under either strategy a call of get_next_proxy_id returns None
\* exactly when the rotator has no proxy ids; calls on an empty rotator
\* leave the counter as new() set it; is_empty() is true exactly when len()
\* is 0.
C14_NoneIffEmpty ==
    /\ \A t \in Threads :
          (rot_pc[t] = "returned") => (rot_result[t] = None <=> proxy_ids = <<>>)
    /\ (proxy_ids = <<>>) => counter = 0
    /\ is_empty <=> (len = 0)

C14_Witness ==
    /\ proxy_ids = <<>>
    /\ strategy = "Random"
    /\ rot_issued >= 2
    /\ \E t \in Threads : rot_pc[t] = "returned" /\ rot_result[t] = None

\* C15: with Random over a non-empty list every call returns a member of
\* the list, a call about to be made can return any member, and no call
\* changes the counter.
C15_RandomMember ==
    (strategy = "Random" /\ proxy_ids # <<>>) =>
        /\ counter = 0
        /\ \A t \in Threads :
              (rot_pc[t] = "returned") =>
                  \E i \in 1..Len(proxy_ids) :
                      rot_result[t] = Some(proxy_ids[i])
        /\ \A t \in Threads :
              (rot_pc[t] = "idle" /\ rot_issued < MaxTickets) =>
                  \A i \in 1..Len(proxy_ids) :
                      ENABLED (RotRandom(t, i)
                               /\ rot_result'[t] = Some(proxy_ids[i]))

C15_Witness ==
    /\ strategy = "Random"
    /\ proxy_ids = <<"proxy1", "proxy2", "proxy3">>
    /\ rot_issued = 3
    /\ rot_pc[1] = "returned" /\ rot_result[1] = Some("proxy3")
    /\ rot_pc[2] = "idle"

(***************************************************************************)
(* Properties of the public IP cache.                                      *)
(***************************************************************************)
\* C16: a call of get_public_ip that starts while the cache holds an entry
\* stored by a completed call and younger than 300 s returns the cached
\* string and performs no fetch; a call that finds the entry aged 300 s or
\* more, or absent, fetches again, and on completing overwrites both ip and
\* last_fetched.
C16_CacheWindow ==
    [][\A t \in Tasks :
          /\ (ip_pc[t] = "idle" /\ ip_pc'[t] # "idle") =>
                IF /\ cache_ip.some
                   /\ cache_last_fetched.some
                   /\ now - cache_last_fetched.value < 300
                THEN /\ ip_pc'[t] = "returned"
                     /\ ip_result'[t] = cache_ip.value
                     /\ ip_fetches' = ip_fetches
                     /\ ~ip_fetched'[t]
                     /\ cache_ip' = cache_ip
                     /\ cache_last_fetched' = cache_last_fetched
                ELSE /\ ip_pc'[t] = "fetching"
                     /\ ip_fetches' = ip_fetches + 1
                     /\ ip_fetched'[t]
          /\ (ip_pc[t] # "returned" /\ ip_pc'[t] = "returned"
                  /\ ip_fetched'[t]) =>
                /\ ip_pc[t] = "fetched"
                /\ cache_ip' = Some(ip_result'[t])
                /\ cache_last_fetched' = SomeInstant(now)
    ]_vars

C16_Witness ==
    /\ ip_calls = 2
    /\ ip_fetches = 1
    /\ cache_last_fetched = SomeInstant(1)
    /\ now = 300
    /\ \E t \in Tasks :
          /\ ip_pc[t] = "returned"
          /\ ~ip_fetched[t]
          /\ ip_result[t] = cache_ip.value

(***************************************************************************)
(* Properties of the crypto provider initialisation.                       *)
(***************************************************************************)
\* C17: across sequential and concurrent invocations of check_email the
\* crypto provider install runs exactly once, it has completed before any
\* invocation proceeds to its syntax check, and later callers find the Once
\* complete without running the install again and without failing.
C17_InstallOnce ==
    /\ crypto_installs <= 1
    /\ once_state # "POISONED"
    /\ (once_state = "COMPLETE") <=> (crypto_installs = 1)
    /\ \A t \in Callers :
          /\ inv_pc[t] # "panicked"
          /\ (inv_pc[t] \in {"check_syntax", "checking"}) =>
                (crypto_installs = 1 /\ once_state = "COMPLETE")
    /\ Cardinality({t \in Callers : inv_pc[t] = "installing"}) <= 1

C17_Witness ==
    /\ crypto_installs = 1
    /\ inv_started = 4
    /\ inv_pc[1] = "checking"
    /\ inv_pc[2] = "check_syntax"

(***************************************************************************)
(* Properties of the reasons given for probe errors.                       *)
(***************************************************************************)
\* the prefix the reason of each SmtpError variant starts with
ErrorReasonPrefix(variant) ==
    CASE variant = "YahooError" -> "Unknown: Yahoo verification failed - "
      [] variant = "GmailError" -> "Unknown: Gmail verification failed - "
      [] variant = "HeadlessError" ->
           "Unknown: Headless browser verification failed - "
      [] variant = "Microsoft365Error" ->
           "Unknown: Microsoft 365 verification failed - "
      [] variant = "AsyncSmtpError" -> "Unknown: SMTP error - "
      [] variant = "IOError" -> "Unknown: I/O error during SMTP connection - "
      [] variant = "Timeout" -> "Unknown: SMTP connection timed out after "
      [] variant = "Socks5" -> "Unknown: "
      [] variant = "AnyhowError" -> "Unknown: Unexpected error - "

\* the text of the error itself that follows the prefix
ErrorReasonPayload(error) ==
    CASE error.variant = "Timeout" -> DurationDebug(error.duration)
      [] error.variant = "Socks5" -> format_socks5_error_detailed(error.socks)
      [] OTHER -> error.detail

\* C18: when the probe result is Err(e), the fused verdict is Unknown and
\* the reason starts with the prefix of e's variant (each of the nine
\* variants has one) followed by the text of e itself; misc has no
\* influence on the reason.
C18_ErrorReasonByVariant ==
    (Fused /\ ~my_smtp.ok) =>
        /\ my_smtp.error.variant \in SmtpErrorVariants
        /\ output.is_reachable = "Unknown"
        /\ StartsWith(output.reason, ErrorReasonPrefix(my_smtp.error.variant))
        /\ output.reason = ErrorReasonPrefix(my_smtp.error.variant)
                           \o ErrorReasonPayload(my_smtp.error)

C18_Witness ==
    /\ Fused
    /\ ~my_smtp.ok
    /\ my_smtp.error.variant = "GmailError"
    /\ my_misc.is_disposable
    /\ output.reason = "Unknown: Gmail verification failed - d2"

\* the SOCKS5 reply kinds that carry a reply code, and their codes
ReplyCode(reply_error) ==
    CASE reply_error = "GeneralFailure" -> "0x01"
      [] reply_error = "ConnectionNotAllowed" -> "0x02"
      [] reply_error = "NetworkUnreachable" -> "0x03"
      [] reply_error = "HostUnreachable" -> "0x04"
      [] reply_error = "ConnectionRefused" -> "0x05"
      [] reply_error = "TtlExpired" -> "0x06"
      [] reply_error = "CommandNotSupported" -> "0x07"
      [] reply_error = "AddressTypeNotSupported" -> "0x08"

CodedReplies == ReplyErrors \ {"Succeeded", "ConnectionTimeout"}

\* the hexadecimal codes 0x.. that a text names
CodesNamed(str) ==
    {SubSeq(str, i, i + 3) :
        i \in {j \in 1..(Len(str) - 3) : SubSeq(str, j, j + 1) = "0x"}}

\* C19: when the probe fails with a SOCKS5 reply error of one of the eight
\* coded kinds, the verdict is Unknown and the reason names the reply code
\* of that kind (GeneralFailure: "reply code 0x01") and the code of no
\* other kind.
C19_ReplyCodeNamed ==
    (/\ Fused
     /\ ~my_smtp.ok
     /\ my_smtp.error.variant = "Socks5"
     /\ my_smtp.error.socks.kind = "ReplyError"
     /\ my_smtp.error.socks.arg \in CodedReplies) =>
        /\ output.is_reachable = "Unknown"
        /\ Contains(output.reason,
                    "reply code " \o ReplyCode(my_smtp.error.socks.arg))
        /\ CodesNamed(output.reason) = {ReplyCode(my_smtp.error.socks.arg)}

C19_Witness ==
    /\ Fused
    /\ ~my_smtp.ok
    /\ my_smtp.error.variant = "Socks5"
    /\ my_smtp.error.socks = [kind |-> "ReplyError", arg |-> "GeneralFailure"]
    /\ output.is_reachable = "Unknown"
    /\ Contains(output.reason, "reply code 0x01")

\* C20: every output check_email returns, the early returns for invalid
\* syntax, MX error and empty MX included, carries the input's backend_name
\* in debug.backend_name.
C20_BackendNamePropagated ==
    output.returned => output.backend_name = input.backend_name

(***************************************************************************)
(* Properties of the steps of check_email.                                 *)
(***************************************************************************)
\* how often f was called in the current invocation
TimesCalled(f) == Cardinality({i \in 1..Len(calls) : calls[i] = f})

\* the invocation has returned on one of the three failure paths
OnFailurePath ==
    /\ pc = "returned"
    /\ my_syntax.is_valid_syntax
    /\ \/ ~my_mx.ok
       \/ ~my_mx.value.lookup.ok
       \/ Fused /\ ~my_smtp.ok

\* C21: get_similar_mail_provider has run exactly once when the invocation
\* returned on the MX error path, the empty MX path or with a probe error,
\* and not at all otherwise (invalid syntax, probe Ok); with a probe Ok the
\* output's syntax.suggestion is the one the syntax check gave.
C21_EnrichmentOnFailureOnly ==
    /\ TimesCalled("get_similar_mail_provider") = IF OnFailurePath THEN 1 ELSE 0
    /\ (Fused /\ my_smtp.ok) =>
          output.syntax.suggestion = check_syntax(input.to_email).suggestion

C21_Witness ==
    /\ Fused
    /\ my_smtp.ok
    /\ input.to_email = "admin@gmial.com"
    /\ get_similar_mail_provider(check_syntax(input.to_email)).suggestion
          # check_syntax(input.to_email).suggestion
    /\ output.syntax.suggestion = check_syntax(input.to_email).suggestion

\* check_smtp has been called with host
HostHandedToProbe == pc = "await_smtp" \/ Fused

\* the records of the successful lookup
LookupRecords == my_mx.value.lookup.records

\* C22: the MX host handed to the SMTP probe is a record of the non-empty
\* lookup, no record has a lower preference, and no record before it in
\* lookup order has the same preference.
C22_MinPreferenceFirst ==
    HostHandedToProbe =>
        /\ host.some
        /\ LookupRecords # <<>>
        /\ \E k \in 1..Len(LookupRecords) :
              /\ LookupRecords[k] = host.value
              /\ \A j \in 1..Len(LookupRecords) :
                    host.value.preference <= LookupRecords[j].preference
              /\ \A j \in 1..(k - 1) :
                    LookupRecords[j].preference # host.value.preference

C22_Witness ==
    /\ pc = "await_smtp"
    /\ Len(LookupRecords) = 2
    /\ LookupRecords[1].preference = LookupRecords[2].preference
    /\ LookupRecords[1] # LookupRecords[2]
    /\ host = Some(LookupRecords[1])

\* the exchange names in string order
SortedExchanges == <<"mx1.test", "mx2.test">>

ExchangeRank(x) ==
    CHOOSE i \in 1..Len(SortedExchanges) : SortedExchanges[i] = x

\* the positions of the records that share the selected host's preference
TiedPositions ==
    {j \in 1..Len(LookupRecords) :
        LookupRecords[j].preference = host.value.preference}

Reverse(seq) == [i \in 1..Len(seq) |-> seq[Len(seq) + 1 - i]]

\* C25 as stated: among the records that share the minimum preference the
\* host handed to the probe has the smallest exchange name in string order.
C25_StringOrderTieBreak ==
    HostHandedToProbe =>
        \A j \in TiedPositions :
            ExchangeRank(host.value.exchange)
                <= ExchangeRank(LookupRecords[j].exchange)

\* C25: MX records are compared by preference only; among the records that
\* share the minimum preference the host handed to the probe is the one at
\* the earliest position of the lookup, whatever the exchange names are, and
\* the same records in reverse lookup order select the one at the latest
\* position.
C25_LookupOrderTieBreak ==
    HostHandedToProbe =>
        /\ \A j \in 1..Len(LookupRecords) :
              host.value.preference <= LookupRecords[j].preference
        /\ \E k \in TiedPositions :
              /\ \A j \in TiedPositions : k <= j
              /\ host.value = LookupRecords[k]
        /\ \E k \in TiedPositions :
              /\ \A j \in TiedPositions : k >= j
              /\ min_by_key_preference(Reverse(LookupRecords))
                    = Some(LookupRecords[k])

C25_Witness ==
    /\ Fused
    /\ Len(LookupRecords) = 2
    /\ LookupRecords[1].preference = LookupRecords[2].preference
    /\ LookupRecords[1].exchange = "mx2.test"
    /\ LookupRecords[2].exchange = "mx1.test"
    /\ host.value.exchange = "mx2.test"

\* the steps of one run in the order of the source, end_time being the
\* SystemTime::now() on line 328
StepOrder ==
    <<"check_syntax", "check_mx", "check_misc", "check_smtp", "end_time",
      "calculate_reachable_with_reason">>

IsStep(c) == \E i \in 1..Len(StepOrder) : StepOrder[i] = c

\* the steps the current invocation has started, in the order it started them
StepsStarted == SelectSeq(calls, IsStep)

AwaitingExternalStep == pc \in {"await_mx", "await_misc", "await_smtp"}

\* C27: a run of check_email that is not waiting for an external step (MX
\* lookup, misc checks, SMTP probe) has returned: it is at one of the four
\* return points (invalid syntax, MX error, empty MX, fused verdict) and has
\* emitted its output.  With every external step returning eventually, this
\* is what makes every run return.
C27_RunEndsAtReturnPoint ==
    (pc # "idle" /\ ~AwaitingExternalStep) =>
        /\ pc = "returned"
        /\ output.returned
        /\ \/ ~my_syntax.is_valid_syntax
           \/ ~my_mx.ok
           \/ ~my_mx.value.lookup.ok
           \/ Fused

\* C28: get_detailed_socks5_description gives a description for a probe
\* error exactly when it is a Socks5 error, so the reason of a Socks5 probe
\* error is "Unknown: " followed by the detailed SOCKS5 description and
\* never the fallback "Unknown: SOCKS5 proxy connection failed - ...".
C28_Socks5FallbackUnreachable ==
    (Fused /\ ~my_smtp.ok) =>
        /\ get_detailed_socks5_description(my_smtp.error).some
              <=> (my_smtp.error.variant = "Socks5")
        /\ (my_smtp.error.variant = "Socks5") =>
              /\ output.reason = "Unknown: "
                    \o format_socks5_error_detailed(my_smtp.error.socks)
              /\ ~StartsWith(output.reason,
                             "Unknown: SOCKS5 proxy connection failed - ")

C28_Witness ==
    /\ Fused
    /\ ~my_smtp.ok
    /\ my_smtp.error.variant = "Socks5"
    /\ my_smtp.error.socks.kind = "AuthenticationFailed"
    /\ StartsWith(output.reason, "Unknown: ")
    /\ ~StartsWith(output.reason, "Unknown: SOCKS5 proxy connection failed - ")

(***************************************************************************)
(* Further properties of the public IP cache.                              *)
(***************************************************************************)
\* C23: while no time has passed since the cache was created empty, so
\* that all calls so far are concurrent first accesses or follow one within
\* 300 s, at most one fetch was started and all calls that have returned
\* returned the identical string.
C23_SingleFetchOnFirstAccess ==
    (ticks = 0) =>
        /\ ip_fetches <= 1
        /\ \A t1, t2 \in Tasks :
              (ip_pc[t1] = "returned" /\ ip_pc[t2] = "returned")
                  => ip_result[t1] = ip_result[t2]

\* what fetch_public_ip returns when all four services failed
Fallbacks == {get_local_hostname(h) : h \in HostnameAnswers}

\* C29: a fetch in which all four services failed returns the fallback
\* ("local:<hostname>" or "local:unknown"), the cache stores it like any
\* other result, and a call that starts while that entry is younger than
\* 300 s returns the fallback without contacting any service.
C29_FallbackCached ==
    [][\A t \in Tasks :
          /\ (/\ ip_pc[t] = "fetching"
              /\ ip_service[t] = Len(PUBLIC_IP_SERVICES) + 1
              /\ ip_pc'[t] = "fetched") => ip_local'[t] \in Fallbacks
          /\ (/\ ip_pc[t] = "fetched"
              /\ ip_local[t] \in Fallbacks
              /\ ip_pc'[t] = "returned") =>
                /\ cache_ip' = Some(ip_local[t])
                /\ cache_last_fetched' = SomeInstant(now)
                /\ ip_result'[t] = ip_local[t]
          /\ (/\ ip_pc[t] = "idle"
              /\ ip_pc'[t] # "idle"
              /\ cache_ip.some
              /\ cache_ip.value \in Fallbacks
              /\ cache_last_fetched.some
              /\ now - cache_last_fetched.value < 300) =>
                /\ ip_pc'[t] = "returned"
                /\ ip_result'[t] = cache_ip.value
                /\ ip_service'[t] = 0
                /\ ip_fetches' = ip_fetches
                /\ cache_ip' = cache_ip
    ]_vars

C29_Witness ==
    /\ cache_ip = Some("local:unknown")
    /\ cache_last_fetched = SomeInstant(0)
    /\ now = 299
    /\ ip_fetches = 1
    /\ \E t \in Tasks :
          /\ ip_pc[t] = "returned"
          /\ ~ip_fetched[t]
          /\ ip_result[t] = "local:unknown"

(***************************************************************************)
(* Properties of fetch_public_ip.                                          *)
(***************************************************************************)
\* the answers that carry an address: a success status and a body that,
\* trimmed, is an IP address; and the address they carry
AddressOf(a) ==
    IF a.sent /\ a.success /\ a.text.some
    THEN CASE a.text.value = "203.0.113.7\n" -> Some("203.0.113.7")
           [] a.text.value = "198.51.100.2" -> Some("198.51.100.2")
           [] OTHER -> None
    ELSE None

\* C24: a fetch contacts the four services in the listed order, one at a
\* time; only a request error, a non-success status or an unparsable body
\* moves on to the next service; the first answer with a success status and
\* a body that trimmed is an IP address ends the fetch with "local:<ip>";
\* after four failures the result is "local:<hostname>" or "local:unknown";
\* every string get_public_ip returns, cached or fresh, begins with "local:".
C24_ServicesInOrder ==
    /\ Len(fetch_log) <= Len(PUBLIC_IP_SERVICES)
    /\ \A i \in 1..Len(fetch_log) :
          /\ fetch_log[i].service = PUBLIC_IP_SERVICES[i]
          /\ (i < Len(fetch_log)) => ~AddressOf(fetch_log[i].answer).some
    /\ (ip_pc[Observed] = "fetching") =>
          /\ ip_service[Observed] = Len(fetch_log) + 1
          /\ \A i \in 1..Len(fetch_log) : ~AddressOf(fetch_log[i].answer).some
    /\ (ip_pc[Observed] = "fetched") =>
          IF fetch_log # <<>> /\ AddressOf(fetch_log[Len(fetch_log)].answer).some
          THEN ip_local[Observed] = "local:"
                  \o AddressOf(fetch_log[Len(fetch_log)].answer).value
          ELSE /\ Len(fetch_log) = Len(PUBLIC_IP_SERVICES)
               /\ ip_local[Observed] \in {"local:host1", "local:unknown"}
    /\ (ip_pc[Observed] = "returned") =>
          /\ StartsWith(ip_result[Observed], "local:")
          /\ ip_fetched[Observed] => ip_result[Observed] = ip_local[Observed]

C24_Witness ==
    /\ ip_pc[Observed] = "returned"
    /\ ip_fetched[Observed]
    /\ Len(fetch_log) = 3
    /\ ~fetch_log[1].answer.sent
    /\ fetch_log[2].answer.sent /\ ~fetch_log[2].answer.success
    /\ fetch_log[3].service = "https://icanhazip.com"
    /\ fetch_log[3].answer.text = Some("203.0.113.7\n")
    /\ ip_result[Observed] = "local:203.0.113.7"

(***************************************************************************)
(* Properties of the rotation counter at its wrap.                         *)
(***************************************************************************)
MaxTicket == UsizeModulus - 1

\* C30: the counter has a fixed width and wraps from its maximum to 0; the
\* index returned is always within 0..N-1; consecutive tickets below the
\* maximum return consecutive positions cyclically; across the wrap (ticket
\* maximum, then ticket 0) the rotation stays cyclic exactly when N divides
\* 2^w.
C30_WrapBreaksRotation ==
    LET N == Len(proxy_ids)
    IN  /\ counter \in 0..MaxTicket
        /\ counter = (CounterNearMax + rot_issued) % UsizeModulus
        /\ \A t \in Threads :
              (rot_pc[t] = "fetched") => rot_ticket[t] \in 0..MaxTicket
        /\ \A e \in rot_returned :
              /\ e.ticket \in 0..MaxTicket
              /\ e.index \in 0..(N - 1)
              /\ e.id = Some(proxy_ids[e.index + 1])
        /\ \A e1, e2 \in rot_returned :
              /\ (e2.ticket = e1.ticket + 1) =>
                    e2.index = (e1.index + 1) % N
              /\ (e1.ticket = MaxTicket /\ e2.ticket = 0) =>
                    ((e2.index = (e1.index + 1) % N)
                        <=> (UsizeModulus % N = 0))

C30_Witness ==
    /\ Len(proxy_ids) = 3
    /\ counter = 1
    /\ \E e1, e2 \in rot_returned :
          /\ e1.ticket = MaxTicket
          /\ e2.ticket = 0
          /\ e2.index = 0
          /\ e2.index # (e1.index + 1) % 3

====
